---------------------------- MODULE Spec2Model ----------------------------
(***************************************************************************)
(* Model of the scheduling and incremental-merge core of X-info-scraper:   *)
(*   DatabaseManager  (scrape_tasks selection, status and frequency        *)
(*                     updates, bulk upserts),                             *)
(*   IncrementalCollector (processPostsData / processFollowersData),       *)
(*   BatchRunner.run  (the serial batch loop).                             *)
(*                                                                         *)
(* Time is counted in minutes since the epoch (UTC).  Rates (posts/day)    *)
(* are kept in thousandths.  SQL NULL is NULL for numeric columns and      *)
(* NULLS for text columns.                                                 *)
(***************************************************************************)
EXTENDS Integers, Sequences, FiniteSets, TLC

NULL == 0 - 1
NULLS == "NULL"

(* ------------------------------ bounds -------------------------------- *)
\* Latest instant the clock may reach (minutes).
MaxTime == 900
\* Largest --batch-size (number of sampled users) tried.
MaxSampleSize == 2
\* Loop iterations (tasks attempted) over all the batch runs.
MaxIterations == 2

Max(a, b) == IF a >= b THEN a ELSE b
Min(a, b) == IF a <= b THEN a ELSE b

(* --------------------------- scrape_tasks ----------------------------- *)
Usernames == {"alice", "bob"}
TaskIds == {1, 2, 3, 4}
\* The registered (username, task_type) pairs; the pair is the table's
\* unique key, the id its primary key.
TaskUsername(id) == IF id = 3 THEN "bob" ELSE "alice"
TaskType(id) ==
  CASE id = 1 -> "posts" [] id = 2 -> "replies" [] id = 3 -> "followers"
    [] OTHER -> "following"

FrequencyGroups == {"very_high", "high", "medium_high", "medium", "low", "very_low"}
\* Values of --frequency tried by the batches.
FrequencyFilters == {"all", "medium_high"}

\* A row as upsertTask's INSERT leaves it: only username, task_type,
\* max_count and enabled are given, every other column takes its default.
NewTaskRow(id, en) ==
  [id |-> id, username |-> TaskUsername(id), task_type |-> TaskType(id),
   enabled |-> en, status |-> "pending",
   last_run_at |-> NULL, next_run_at |-> NULL, next_run_time |-> NULL,
   error_message |-> NULLS, frequency_group |-> NULLS,
   avg_posts_per_day |-> NULL, last_post_count |-> NULL]

(* ------------------------------- time --------------------------------- *)
MinutesPerHour == 60
MinutesPerDay == 1440
\* Beijing time is UTC+8.
BeijingOffset == 480

\* calculateNextRunTime without the adjustment of the hour.
calculateNextRunTimeUnadjusted(hours, t) == t + hours * MinutesPerHour

\* calculateNextRunTime(hours), evaluated at instant t (new Date()).
calculateNextRunTime(hours, t) ==
  LET bjNow == t + BeijingOffset
      nextRun == bjNow + hours * MinutesPerHour
      bjHour == (nextRun \div MinutesPerHour) % 24
      adjusted ==
        IF bjHour < 8
          THEN (nextRun \div MinutesPerDay) * MinutesPerDay + 8 * MinutesPerHour
          ELSE IF bjHour >= 24
            THEN ((nextRun \div MinutesPerDay) + 1) * MinutesPerDay + 8 * MinutesPerHour
            ELSE nextRun
  IN  adjusted - BeijingOffset

(* -------------------------- Rate Classifier --------------------------- *)
\* task.avg_posts_per_day || dflt.  The driver hands a DECIMAL column over as
\* text and a FLOAT or DOUBLE one as a number (the schema decides): the text
\* "0.00" is truthy, the number 0 is not.
RateOr(avg, dflt, decimalAsText) ==
  IF avg = NULL \/ (avg = 0 /\ ~decimalAsText) THEN dflt ELSE avg

\* The smoothed rate without the final Math.max(0, Math.min(100, ...)).
SmoothedRateNoClamp(task, totalPostCount, t, decimalAsText) ==
  LET lastCount == IF task.last_post_count = NULL THEN 0 ELSE task.last_post_count
      lastRunTime == task.last_run_at
      newPosts == Max(0, totalPostCount - lastCount)
      mins == t - lastRunTime
      currentRate == (newPosts * MinutesPerDay * 1000) \div Max(mins, 1)
  IN  IF lastRunTime = NULL \/ lastCount = 0 \/ mins * 100 < 4 * MinutesPerDay
        THEN RateOr(task.avg_posts_per_day, 2000, decimalAsText)
        ELSE IF mins * 2 < MinutesPerDay
          THEN (RateOr(task.avg_posts_per_day, 2000, decimalAsText) * 7 + currentRate * 3) \div 10
          ELSE (RateOr(task.avg_posts_per_day, currentRate, decimalAsText) * 3 + currentRate * 7) \div 10

\* Steps 2-3 of updateUserFrequency: the smoothed rate (thousandths/day).
SmoothedRate(task, totalPostCount, t, decimalAsText) ==
  LET lastCount == IF task.last_post_count = NULL THEN 0 ELSE task.last_post_count
      lastRunTime == task.last_run_at
      newPosts == Max(0, totalPostCount - lastCount)
  IN  IF lastRunTime = NULL \/ lastCount = 0
        THEN RateOr(task.avg_posts_per_day, 2000, decimalAsText)
        ELSE LET mins == t - lastRunTime
                 \* newPosts / daysSinceLastRun, daysSinceLastRun = mins / 1440
                 currentRate == (newPosts * MinutesPerDay * 1000) \div Max(mins, 1)
                 raw ==
                   IF mins * 100 < 4 * MinutesPerDay
                     THEN RateOr(task.avg_posts_per_day, 2000, decimalAsText)
                     ELSE IF mins * 2 < MinutesPerDay
                       THEN (RateOr(task.avg_posts_per_day, 2000, decimalAsText) * 7
                             + currentRate * 3) \div 10
                       ELSE (RateOr(task.avg_posts_per_day, currentRate, decimalAsText) * 3
                             + currentRate * 7) \div 10
             IN  Max(0, Min(100000, raw))

\* Step 4 with the first two thresholds tested in the wrong order.
GroupOfRateSwapped(avg) ==
  IF avg >= 3500 THEN "high"
  ELSE IF avg >= 7000 THEN "very_high"
  ELSE IF avg >= 1600 THEN "medium"
  ELSE IF avg >= 800 THEN "medium_high"
  ELSE IF avg >= 300 THEN "low"
  ELSE "very_low"

\* Step 4: rate -> frequency group.
GroupOfRate(avg) ==
  IF avg >= 7000 THEN "very_high"
  ELSE IF avg >= 3500 THEN "high"
  ELSE IF avg >= 1600 THEN "medium_high"
  ELSE IF avg >= 800 THEN "medium"
  ELSE IF avg >= 300 THEN "low"
  ELSE "very_low"

\* Step 5 with shorter intervals for the two fastest groups.
groupToHoursShort(g) ==
  CASE g = "very_high" -> 4
    [] g = "high" -> 6
    [] g = "medium_high" -> 10
    [] g = "medium" -> 12
    [] g = "low" -> 18
    [] g = "very_low" -> 24
    [] OTHER -> 12

\* Step 5 with the map missing: every group falls back to || 12.
groupToHoursFallback(g) == 12

\* Step 5: groupToHoursMap[frequencyGroup] || 12
groupToHoursMap(g) ==
  CASE g = "very_high" -> 7
    [] g = "high" -> 8
    [] g = "medium_high" -> 10
    [] g = "medium" -> 12
    [] g = "low" -> 18
    [] g = "very_low" -> 24
    [] OTHER -> 12


(* ----------------------------- raw records ---------------------------- *)
\* A row of the Collector's export (csv-parse gives every column as text).
\* An absent or empty column is 0 (falsy); ids are positive numbers.
RawPost(ID, tweetId, Type, Text, author) ==
  [ID |-> ID, id |-> 0, tweet_id |-> tweetId, status_id |-> 0, UserID |-> 0,
   Type |-> Type, Text |-> Text, AuthorUsername |-> author,
   in_reply_to_tweet_id |-> 0, conversation_id |-> 0]

RawFollow(userId, username, name) ==
  [UserID |-> userId, user_id |-> 0, Username |-> username, Name |-> name]

\* item.ID || item.id || item.tweet_id || item.status_id || item['User ID']
getItemId(item) ==
  IF item.ID # 0 THEN item.ID
  ELSE IF item.id # 0 THEN item.id
  ELSE IF item.tweet_id # 0 THEN item.tweet_id
  ELSE IF item.status_id # 0 THEN item.status_id
  ELSE item.UserID

\* value || null, as bound to a column
OrNull(v) == IF v = 0 THEN NULL ELSE v

\* rawData.filter(item => this.getItemId(item))
FilterValid(rawData) ==
  LET F[i \in 0..Len(rawData)] ==
        IF i = 0 THEN << >>
        ELSE IF getItemId(rawData[i]) # 0 THEN Append(F[i - 1], rawData[i]) ELSE F[i - 1]
  IN  F[Len(rawData)]

(* --------------------------- twitter_users ---------------------------- *)
\* AUTO_INCREMENT primary key of a table holding `rows`.
NextId(rows) ==
  IF rows = {} THEN 1
  ELSE (CHOOSE m \in {r.id : r \in rows} : \A r \in rows : r.id <= m) + 1

\* SELECT id FROM twitter_users WHERE username = ?  (NULL when absent)
getUserIdByUsername(users, username) ==
  IF \E r \in users : r.username = username
    THEN (CHOOSE r \in users : r.username = username).id
    ELSE NULL

\* One row of INSERT INTO twitter_users ... ON DUPLICATE KEY UPDATE
\* user_id = VALUES(user_id), ...: the row that conflicts on a unique key
\* (username, then user_id) is updated, username itself is never updated.
\* Gives [ok, users]; ok is FALSE when the update would duplicate user_id.
UpsertUserRow(users, username, userId) ==
  LET byName == {r \in users : r.username = username}
      byUid == {r \in users : userId # NULL /\ r.user_id = userId}
      hit == IF byName # {} THEN byName ELSE byUid
  IN  IF hit = {}
        THEN [ok |-> TRUE,
              users |-> users \cup {[id |-> NextId(users), username |-> username,
                                     user_id |-> userId]}]
        ELSE LET old == CHOOSE r \in hit : TRUE
                 clash == \E r \in users : r # old /\ userId # NULL /\ r.user_id = userId
             IN  IF clash THEN [ok |-> FALSE, users |-> users]
                 ELSE [ok |-> TRUE,
                       users |-> (users \ {old}) \cup {[old EXCEPT !.user_id = userId]}]

\* upsertUser(userData) as called by the merges: user_id is null/undefined.
\* Gives [ok, users, id].
upsertUser(users, username, userId) ==
  LET r == UpsertUserRow(users, username, userId)
  IN  [ok |-> r.ok, users |-> r.users,
       id |-> getUserIdByUsername(r.users, username)]

(* --------------------------- twitter_posts ---------------------------- *)
\* Rows per statement in batchUpsertPosts / batchUpsertFollowers.
batchSize == 1000

\* post.ID || post.tweet_id || post.id, as bound to column tweet_id
PostTweetId(post) ==
  IF post.ID # 0 THEN post.ID
  ELSE IF post.tweet_id # 0 THEN post.tweet_id
  ELSE post.id

\* The unique key of twitter_posts the ON DUPLICATE KEY clause fires on.
PostConflict(row, tweetId) == row.tweet_id = tweetId

\* The upsert with column text left out of the ON DUPLICATE KEY UPDATE list.
UpsertPostRowKeepText(posts, post, userId) ==
  LET tid == PostTweetId(post)
      hit == {r \in posts : PostConflict(r, tid)}
  IN  IF hit = {}
        THEN posts \cup {[tweet_id |-> tid, user_id |-> userId,
                          in_reply_to_tweet_id |-> OrNull(post.in_reply_to_tweet_id),
                          conversation_id |-> OrNull(post.conversation_id),
                          text |-> post.Text, type |-> post.Type]}
        ELSE LET old == CHOOSE r \in hit : TRUE
             IN  (posts \ {old}) \cup {[old EXCEPT !.user_id = userId, !.type = post.Type]}

\* The write made only for a record that counts as new: a tweet_id that is
\* already stored is skipped.
UpsertPostRowIfNew(posts, post, userId) ==
  IF \E r \in posts : PostConflict(r, PostTweetId(post)) THEN posts
  ELSE posts \cup {[tweet_id |-> PostTweetId(post), user_id |-> userId,
                    in_reply_to_tweet_id |-> OrNull(post.in_reply_to_tweet_id),
                    conversation_id |-> OrNull(post.conversation_id),
                    text |-> post.Text, type |-> post.Type]}

\* The ON DUPLICATE KEY UPDATE list with the two link columns assigned
\* VALUES(c) as the other columns are, without COALESCE.
UpsertPostRowOverwriteLinks(posts, post, userId) ==
  LET tid == PostTweetId(post)
      hit == {r \in posts : PostConflict(r, tid)}
      parent == OrNull(post.in_reply_to_tweet_id)
      conv == OrNull(post.conversation_id)
  IN  IF hit = {}
        THEN posts \cup {[tweet_id |-> tid, user_id |-> userId,
                          in_reply_to_tweet_id |-> parent, conversation_id |-> conv,
                          text |-> post.Text, type |-> post.Type]}
        ELSE LET old == CHOOSE r \in hit : TRUE
             IN  (posts \ {old}) \cup
                 {[old EXCEPT !.user_id = userId,
                     !.in_reply_to_tweet_id = parent,
                     !.conversation_id = conv,
                     !.text = post.Text, !.type = post.Type]}

\* One VALUES row of batchUpsertPosts' statement.
UpsertPostRow(posts, post, userId) ==
  LET tid == PostTweetId(post)
      hit == {r \in posts : PostConflict(r, tid)}
      parent == OrNull(post.in_reply_to_tweet_id)
      conv == OrNull(post.conversation_id)
  IN  IF hit = {}
        THEN posts \cup {[tweet_id |-> tid, user_id |-> userId,
                          in_reply_to_tweet_id |-> parent, conversation_id |-> conv,
                          text |-> post.Text, type |-> post.Type]}
        ELSE LET old == CHOOSE r \in hit : TRUE
             IN  (posts \ {old}) \cup
                 {[old EXCEPT !.user_id = userId,
                     \* COALESCE(VALUES(c), twitter_posts.c)
                     !.in_reply_to_tweet_id = IF parent # NULL THEN parent ELSE @,
                     !.conversation_id = IF conv # NULL THEN conv ELSE @,
                     !.text = post.Text, !.type = post.Type]}

RECURSIVE UpsertPostRows(_, _, _)
UpsertPostRows(posts, data, userId) ==
  IF data = << >> THEN posts
  ELSE UpsertPostRows(UpsertPostRow(posts, Head(data), userId), Tail(data), userId)

\* The first `k` statements of a bulk write that puts `size` rows in a
\* statement, and the number of its statements.
ChunkPrefixBy(data, k, size) == SubSeq(data, 1, Min(Len(data), k * size))
NumChunksBy(data, size) == (Len(data) + size - 1) \div size

\* The first `k` statements (chunks of batchSize rows) of a bulk write.
ChunkPrefix(data, k) == ChunkPrefixBy(data, k, batchSize)
NumChunks(data) == NumChunksBy(data, batchSize)

\* The bulk write run as one transaction: a failure leaves nothing behind.
batchUpsertPostsRolledBack(posts, postsData, userId, done, size) ==
  IF done < NumChunksBy(postsData, size) THEN posts
  ELSE UpsertPostRows(posts, postsData, userId)

\* batchUpsertPosts with `size` rows in a statement, stopped after `done`
\* statements: each statement is committed by itself.
batchUpsertPostsBy(posts, postsData, userId, done, size) ==
  UpsertPostRows(posts, ChunkPrefixBy(postsData, done, size), userId)

\* batchUpsertPosts(postsData, userId) stopped after `done` statements
\* (done = NumChunks: the whole write).
batchUpsertPosts(posts, postsData, userId, done) ==
  batchUpsertPostsBy(posts, postsData, userId, done, batchSize)

\* SELECT tweet_id FROM twitter_posts WHERE user_id = ?
getCollectedPostIds(posts, userId) ==
  {r.tweet_id : r \in {x \in posts : x.user_id = userId}}


(* ----------------- twitter_followers / twitter_followings ------------- *)
\* follower['User ID'] || follower.user_id (0: neither is set)
FollowUserId(item) == IF item.UserID # 0 THEN item.UserID ELSE item.user_id

\* The unique key of twitter_followers the ON DUPLICATE KEY clause fires on.
\* A NULL follower_user_id never conflicts (SQL unique indexes admit NULLs).
FollowerConflict(row, userId, followerId, relationType) ==
  /\ followerId # NULL
  /\ row.user_id = userId
  /\ row.follower_user_id = followerId
  /\ row.relation_type = relationType

\* One VALUES row of batchUpsertFollowers' statement.
UpsertFollowerRow(followers, item, userId, relationType) ==
  LET fid == OrNull(FollowUserId(item))
      hit == {r \in followers : FollowerConflict(r, userId, fid, relationType)}
  IN  IF hit = {}
        THEN followers \cup
             {[id |-> NextId(followers), user_id |-> userId, follower_user_id |-> fid,
               follower_username |-> item.Username, follower_name |-> item.Name,
               relation_type |-> relationType]}
        ELSE LET old == CHOOSE r \in hit : TRUE
             IN  (followers \ {old}) \cup {[old EXCEPT !.follower_name = item.Name]}

RECURSIVE UpsertFollowerRows(_, _, _, _)
UpsertFollowerRows(followers, data, userId, relationType) ==
  IF data = << >> THEN followers
  ELSE UpsertFollowerRows(UpsertFollowerRow(followers, Head(data), userId, relationType),
                          Tail(data), userId, relationType)

\* batchUpsertFollowers(followersData, userId, relationType), stopped after
\* `done` statements.
batchUpsertFollowers(followers, followersData, userId, relationType, done) ==
  UpsertFollowerRows(followers, ChunkPrefix(followersData, done), userId, relationType)

\* SELECT follower_user_id FROM twitter_followers WHERE user_id = ? AND relation_type = ?
getCollectedFollowerIds(followers, userId, relationType) ==
  {r.follower_user_id :
     r \in {x \in followers : x.user_id = userId /\ x.relation_type = relationType}}

\* batchUpsertUsers(usersData): every record is upserted into twitter_users;
\* gives [ok, users, idMap], idMap the set of <<user_id, id>> pairs selected
\* back for the records' non-empty User IDs.
RECURSIVE UpsertUserRows(_, _)
UpsertUserRows(users, data) ==
  IF data = << >> THEN [ok |-> TRUE, users |-> users]
  ELSE LET r == UpsertUserRow(users, Head(data).Username, OrNull(FollowUserId(Head(data))))
       IN  IF r.ok THEN UpsertUserRows(r.users, Tail(data)) ELSE r

batchUpsertUsers(users, usersData) ==
  LET r == UpsertUserRows(users, usersData)
      twitterIds == {FollowUserId(usersData[i]) : i \in 1..Len(usersData)} \ {0}
  IN  [ok |-> r.ok, users |-> r.users,
       idMap |-> {<<u.user_id, u.id>> : u \in {x \in r.users : x.user_id \in twitterIds}}]

\* The unique key of twitter_followings that INSERT IGNORE skips on.
FollowingConflict(row, sourceUserId, targetUserId) ==
  row.source_user_id = sourceUserId /\ row.target_user_id = targetUserId

\* A plain INSERT of the pair, whatever the table holds.
InsertFollowingAlways(followings, sourceUserId, targetUserId) ==
  [followings |-> followings \cup {[id |-> NextId(followings),
                                    source_user_id |-> sourceUserId,
                                    target_user_id |-> targetUserId]},
   affected |-> 1]

\* One VALUES row of INSERT IGNORE INTO twitter_followings: a pair already
\* stored is skipped.  Gives [followings, affected].
InsertIgnoreFollowing(followings, sourceUserId, targetUserId) ==
  IF \E r \in followings : FollowingConflict(r, sourceUserId, targetUserId)
    THEN [followings |-> followings, affected |-> 0]
    ELSE [followings |-> followings \cup {[id |-> NextId(followings),
                                           source_user_id |-> sourceUserId,
                                           target_user_id |-> targetUserId]},
          affected |-> 1]

\* The rows of one batchInsertFollowings call; gives [followings, affectedRows].
RECURSIVE InsertIgnoreFollowings(_, _, _, _)
InsertIgnoreFollowings(followings, sourceUserId, targets, n) ==
  IF targets = << >> THEN [followings |-> followings, affectedRows |-> n]
  ELSE LET r == InsertIgnoreFollowing(followings, sourceUserId, Head(targets))
       IN  InsertIgnoreFollowings(r.followings, sourceUserId, Tail(targets),
                                  n + r.affected)

batchInsertFollowings(followings, sourceUserId, targetInternalIds) ==
  InsertIgnoreFollowings(followings, sourceUserId, targetInternalIds, 0)


(* ------------------------ IncrementalCollector ------------------------ *)
\* error.message of a failed store call / of a failed Collector.
StoreError == "ER_STORE"
CollectorError == "COLLECTOR_FAILED"

\* Where a store call of a merge throws: nowhere, at the user lookup, at
\* the user upsert, at the read of the stored ids, or inside the bulk write.
FailPoints == {"none", "lookup", "user", "existing", "write"}

Result(store, total, new, updated) ==
  [ok |-> TRUE, err |-> NULLS, total |-> total, new |-> new, updated |-> updated,
   store |-> store]
Thrown(store, msg) ==
  [ok |-> FALSE, err |-> msg, total |-> 0, new |-> 0, updated |-> 0, store |-> store]

\* The replies pass with conversationRootId never assigned: a reply takes
\* the previous row as its root.
RECURSIVE inferReplyLinksNoRoot(_, _, _, _)
inferReplyLinksNoRoot(rows, i, previousTweetId, conversationRootId) ==
  IF i > Len(rows) THEN rows
  ELSE LET row == rows[i]
           currentId == getItemId(row)
       IN  IF row.Type = "Reply"
             THEN inferReplyLinksNoRoot(
                    [rows EXCEPT ![i] = [row EXCEPT !.in_reply_to_tweet_id = previousTweetId,
                                                    !.conversation_id =
                                                       IF previousTweetId # 0
                                                         THEN previousTweetId ELSE @]],
                    i + 1, currentId, 0)
             ELSE inferReplyLinksNoRoot(
                    [rows EXCEPT ![i] = [row EXCEPT !.conversation_id = currentId,
                                                    !.in_reply_to_tweet_id = 0]],
                    i + 1, currentId, 0)

\* The replies pass of processPostsData: parent and conversation root are
\* inferred from the order of the rows.
RECURSIVE inferReplyLinks(_, _, _, _)
inferReplyLinks(rows, i, previousTweetId, conversationRootId) ==
  IF i > Len(rows) THEN rows
  ELSE LET row == rows[i]
           currentId == getItemId(row)
       IN  IF row.Type = "Reply"
             THEN LET conv == IF conversationRootId # 0 THEN conversationRootId
                              ELSE IF previousTweetId # 0 THEN previousTweetId
                              ELSE row.conversation_id
                  IN  inferReplyLinks(
                        [rows EXCEPT ![i] = [row EXCEPT !.in_reply_to_tweet_id = previousTweetId,
                                                        !.conversation_id = conv]],
                        i + 1, currentId, conversationRootId)
             ELSE inferReplyLinks(
                    [rows EXCEPT ![i] = [row EXCEPT !.conversation_id = currentId,
                                                    !.in_reply_to_tweet_id = 0]],
                    i + 1, currentId, currentId)

\* The new/updated statistics of processPostsData: rows whose id is (known)
\* or is not among existingIds.
CountPosts(data, existingIds, known) ==
  Cardinality({i \in 1..Len(data) :
                 getItemId(data[i]) # 0 /\ ((getItemId(data[i]) \in existingIds) = known)})

\* The same of processFollowersData, on item['User ID'] || item.user_id.
CountFollowers(data, existingIds, known) ==
  Cardinality({i \in 1..Len(data) :
                 FollowUserId(data[i]) # 0 /\ ((FollowUserId(data[i]) \in existingIds) = known)})

\* processPostsData(username, type, rawData) against `store`; `fail` is the
\* store call that throws and `done` the statements of the bulk write that
\* completed before it, `size` the rows batchUpsertPosts puts in a statement.
processPostsDataBy(store, username, type, rawData, fail, done, size) ==
  LET valid0 == FilterValid(rawData)
      validData == IF type = "replies" THEN inferReplyLinks(valid0, 1, 0, 0) ELSE valid0
      found == getUserIdByUsername(store.users, username)
      firstPost == validData[1]
      up == IF found = NULL
              THEN upsertUser(store.users,
                              IF firstPost.AuthorUsername # "" THEN firstPost.AuthorUsername
                              ELSE username, NULL)
              ELSE [ok |-> TRUE, users |-> store.users, id |-> found]
      store1 == [store EXCEPT !.users = up.users]
      userId == up.id
      existingIds == getCollectedPostIds(store.posts, userId)
      updateCount == CountPosts(validData, existingIds, TRUE)
      newCount == CountPosts(validData, existingIds, FALSE)
  IN  IF rawData = << >> \/ valid0 = << >> THEN Result(store, 0, 0, 0)
      ELSE IF fail = "lookup" THEN Thrown(store, StoreError)
      ELSE IF found = NULL /\ (fail = "user" \/ ~up.ok) THEN Thrown(store, StoreError)
      ELSE IF fail = "existing" THEN Thrown(store1, StoreError)
      ELSE IF fail = "write"
        THEN Thrown([store1 EXCEPT
                       !.posts = batchUpsertPostsBy(@, validData, userId, done, size)],
                    StoreError)
      ELSE Result([store1 EXCEPT
                     !.posts = batchUpsertPostsBy(@, validData, userId,
                                                  NumChunksBy(validData, size), size)],
                  Len(validData), newCount, updateCount)

\* processPostsData with batchUpsertPosts' own batchSize.
processPostsData(store, username, type, rawData, fail, done) ==
  processPostsDataBy(store, username, type, rawData, fail, done, batchSize)

\* targetInternalIds of the following branch: idMap[twitterId] of every
\* record with a User ID the map knows, in the records' order.
RECURSIVE TargetInternalIds(_, _)
TargetInternalIds(rawData, idMap) ==
  IF rawData = << >> THEN << >>
  ELSE LET twitterId == FollowUserId(Head(rawData))
           ids == {p[2] : p \in {q \in idMap : q[1] = twitterId}}
       IN  IF twitterId # 0 /\ ids # {}
             THEN <<CHOOSE x \in ids : TRUE>> \o TargetInternalIds(Tail(rawData), idMap)
             ELSE TargetInternalIds(Tail(rawData), idMap)

\* processFollowersData(username, type, rawData) against `store`.  nullOk
\* tells whether column follower_user_id admits NULL (a record without a
\* User ID is then stored; otherwise its statement is rejected).
processFollowersData(store, username, type, rawData, fail, done, nullOk) ==
  LET found == getUserIdByUsername(store.users, username)
      up == IF found = NULL THEN upsertUser(store.users, username, NULL)
            ELSE [ok |-> TRUE, users |-> store.users, id |-> found]
      store1 == [store EXCEPT !.users = up.users]
      userId == up.id
      \* following: twitter_users + twitter_followings
      bu == batchUpsertUsers(store1.users, rawData)
      store2 == [store1 EXCEPT !.users = bu.users]
      ins == batchInsertFollowings(store2.followings, userId,
                                   TargetInternalIds(rawData, bu.idMap))
      \* followers: twitter_followers
      relationType == IF type = "followers" THEN "follower" ELSE "following"
      existingIds == getCollectedFollowerIds(store1.followers, userId, relationType)
      updateCount == CountFollowers(rawData, existingIds, TRUE)
      newCount == CountFollowers(rawData, existingIds, FALSE)
      rejected == ~nullOk /\ \E i \in 1..Len(rawData) : FollowUserId(rawData[i]) = 0
  IN  IF rawData = << >> THEN Result(store, 0, 0, 0)
      ELSE IF fail = "lookup" THEN Thrown(store, StoreError)
      ELSE IF found = NULL /\ (fail = "user" \/ ~up.ok) THEN Thrown(store, StoreError)
      ELSE IF type = "following"
        THEN IF fail = "existing" \/ ~bu.ok THEN Thrown(store1, StoreError)
             ELSE IF fail = "write" THEN Thrown(store2, StoreError)
             ELSE Result([store2 EXCEPT !.followings = ins.followings],
                         Len(rawData), ins.affectedRows, 0)
      ELSE IF fail = "existing" THEN Thrown(store1, StoreError)
      ELSE IF fail = "write"
        THEN Thrown([store1 EXCEPT !.followers =
                       batchUpsertFollowers(@, rawData, userId, relationType, done)],
                    StoreError)
      ELSE IF rejected THEN Thrown(store1, StoreError)
      ELSE Result([store1 EXCEPT !.followers =
                     batchUpsertFollowers(@, rawData, userId, relationType,
                                          NumChunks(rawData))],
                  Len(rawData), newCount, updateCount)

\* processCollectedData(username, type, rawData): the dispatch on the type.
processCollectedData(store, username, type, rawData, fail, done, nullOk) ==
  IF type \in {"posts", "replies", "tweets"}
    THEN processPostsData(store, username, type, rawData, fail, done)
  ELSE IF type \in {"followers", "following"}
    THEN processFollowersData(store, username, type, rawData, fail, done, nullOk)
  ELSE Result(store, Len(rawData), Len(rawData), 0)


(* ------------------- DatabaseManager: scrape_tasks -------------------- *)
\* The user query asking for status = 'pending': a task that has run is
\* never eligible again.
UserQueryWherePendingOnly(row, frequencyGroup, t) ==
  /\ row.enabled
  /\ row.status = "pending"
  /\ (row.next_run_time = NULL \/ row.next_run_time <= t)
  /\ (frequencyGroup = "all" \/ row.frequency_group = frequencyGroup)

\* The WHERE clause of getPendingTasksByFrequency's user query, at `t`.
UserQueryWhere(row, frequencyGroup, t) ==
  /\ row.enabled
  /\ row.status # "running"
  /\ (row.next_run_time = NULL \/ row.next_run_time <= t)
  /\ (frequencyGroup = "all" \/ row.frequency_group = frequencyGroup)

\* The user query without its LIMIT.
SampleUsersNoLimit(names, limit) == {names}

\* SELECT DISTINCT username ... ORDER BY RAND() LIMIT ?: every possible draw.
SampleUsers(names, limit) ==
  {S \in SUBSET names : Cardinality(S) = Min(limit, Cardinality(names))}

\* The task query with nothing but the username list in its WHERE clause.
TaskQueryWhereUsernameOnly(row, usernames) == row.username \in usernames

\* The task query without its test of status.
TaskQueryWhereAnyStatus(row, usernames) ==
  /\ row.enabled
  /\ row.username \in usernames

\* The WHERE clause of getPendingTasksByFrequency's task query.
TaskQueryWhere(row, usernames) ==
  /\ row.enabled
  /\ row.status # "running"
  /\ row.username \in usernames

\* getPendingTasksByFrequency(frequencyGroup, limit) at `t`: the set of the
\* row sets it may return.
getPendingTasksByFrequency(tasks, frequencyGroup, limit, t) ==
  LET names == {tasks[id].username :
                  id \in {i \in TaskIds : UserQueryWhere(tasks[i], frequencyGroup, t)}}
  IN  {{tasks[id] : id \in {i \in TaskIds : TaskQueryWhere(tasks[i], S)}} :
         S \in SampleUsers(names, limit)}

\* updateTaskStatus(taskId, status, errorMessage, nextRunAt) at `t`.
updateTaskStatus(tasks, taskId, status, errorMessage, nextRunAt, t) ==
  [tasks EXCEPT ![taskId] =
     [@ EXCEPT !.status = status, !.last_run_at = t, !.error_message = errorMessage,
               !.next_run_at = IF nextRunAt # NULL THEN nextRunAt ELSE @]]

\* updateUserFrequency(taskId, totalPostCount) at `t`; gives [ok, tasks].
\* For a task that is not 'posts' the UPDATE has three placeholders and is
\* given four values ['low', totalPostCount, nextRunTime, taskId]: the
\* driver binds them in order, so the statement reads WHERE id = nextRunTime.
\* A strict-mode server rejects it (the call throws); otherwise it runs and
\* matches no row of ids 1..3.  Either way the task's row is not written.
\* For a posts task the row is written; the console.log after the UPDATE
\* calls avgPostsPerDay.toFixed, which throws when avgPostsPerDay is the text
\* read from the row (first-observation branch, rate already stored, DECIMAL
\* column): ok is then FALSE with the row written.
updateUserFrequency(tasks, taskId, totalPostCount, t, sqlStrict, decimalAsText) ==
  LET task == tasks[taskId]
      avgPostsPerDay == SmoothedRate(task, totalPostCount, t, decimalAsText)
      isText == /\ decimalAsText
                /\ task.avg_posts_per_day # NULL
                /\ (task.last_run_at = NULL \/ task.last_post_count \in {NULL, 0})
      frequencyGroup == GroupOfRate(avgPostsPerDay)
      nextRunTime == calculateNextRunTime(groupToHoursMap(frequencyGroup), t)
  IN  IF task.task_type # "posts"
        THEN [ok |-> ~sqlStrict, tasks |-> tasks]
        ELSE [ok |-> ~isText,
              tasks |-> [tasks EXCEPT ![taskId] =
                           [@ EXCEPT !.frequency_group = frequencyGroup,
                                     !.avg_posts_per_day = avgPostsPerDay,
                                     !.last_post_count = totalPostCount,
                                     !.next_run_time = nextRunTime]]]


(* ------------------------------- state -------------------------------- *)
VARIABLES
  now,              \* the clock (minutes)
  tasks,            \* table scrape_tasks: id -> row
  store,            \* tables twitter_users, twitter_posts, twitter_followers, twitter_followings
  pc,               \* where BatchRunner.run stands
  iterations,       \* loop iterations started so far, over all the runs
  frequencyGroup,   \* loadTasksFromDatabase: the frequency group asked for
  limit,            \* loadTasksFromDatabase: the number of users asked for
  selectedAt,       \* loadTasksFromDatabase: when the selection was made
  taskRows,         \* loadTasksFromDatabase: the rows getPendingTasksByFrequency returned
  continueOnError,  \* config.batch.continueOnError
  pendingUsers,     \* ids of the loaded tasks the loop has not reached yet
  user,             \* id of the task of the current iteration (0: none)
  before,           \* the task's row as the current iteration found it
  result,           \* what collectForUser returned in the current iteration (ok: it returned)
  error,            \* message of the error caught in the current iteration
  results,          \* this.results
  globalError,      \* the error run() reports as report.globalError
  merges,           \* single-task collections (collectForUser) performed, counted
  last,             \* the last of them: its input, what it returned, and the one before
  exitStatus,       \* exit status of the process that ran main() (NULL: still running)
  input,            \* the arguments of the last call made on a function by itself
  output            \* what that call returned

vars == <<now, tasks, store, pc, iterations, frequencyGroup, limit, selectedAt,
          taskRows, continueOnError, pendingUsers, user, before, result, error,
          results, globalError, merges, last, exitStatus, input, output>>

loadVars == <<frequencyGroup, limit, selectedAt, taskRows>>
runVars == <<continueOnError, pendingUsers>>
iterVars == <<user, before, result, error>>
mergeVars == <<merges, last>>
fnVars == <<input, output>>

EmptyStore == [users |-> {}, posts |-> {}, followers |-> {}, followings |-> {}]
NoResult == [ok |-> FALSE, total |-> 0, new |-> 0]
NoRow == NewTaskRow(0, FALSE)
\* Rows held by all the tables of a store.
RowCount(s) ==
  Cardinality(s.users) + Cardinality(s.posts) + Cardinality(s.followers)
    + Cardinality(s.followings)
\* No merge yet.  again: the merge before returned and had the same input;
\* fromEmpty: this merge started on the empty store; prevFromEmpty, prevNew,
\* prevData: fromEmpty, new and rawData of the merge before.
NoMerge == [username |-> NULLS, type |-> NULLS, rawData |-> << >>, ok |-> FALSE,
            total |-> 0, new |-> 0, updated |-> 0, rowsBefore |-> 0, rows |-> 0,
            fromEmpty |-> FALSE, again |-> FALSE, prevFromEmpty |-> FALSE,
            prevNew |-> 0, prevData |-> << >>, injected |-> FALSE]

\* No function has been called by itself.
NoCall == [fn |-> "none"]

\* Tasks an operator has disabled (enabled = FALSE).
Disabled == {4}

Init ==
  /\ now = 0
  /\ tasks = [id \in TaskIds |-> NewTaskRow(id, id \notin Disabled)]
  /\ store = EmptyStore
  /\ pc = "idle"
  /\ iterations = 0
  /\ frequencyGroup = "all"
  /\ limit = 0
  /\ selectedAt = NULL
  /\ taskRows = {}
  /\ continueOnError = TRUE
  /\ pendingUsers = {}
  /\ user = 0
  /\ before = NoRow
  /\ result = NoResult
  /\ error = NULLS
  /\ results = << >>
  /\ globalError = NULLS
  /\ merges = 0
  /\ last = NoMerge
  /\ exitStatus = NULL
  /\ input = NoCall
  /\ output = NoCall

(* --------------------------- BatchRunner.run -------------------------- *)
\* How long the worker may rest between two runs.
TickSteps == {720}
\* How long one collectForUser call may take.
CollectTimes == {30}

\* No process is running: none yet, the last one exited, or it was killed.
Stopped == pc \in {"idle", "exited", "crashed"}

\* Time passes between the runs.
Tick ==
  /\ Stopped
  /\ \E d \in TickSteps : now + d <= MaxTime /\ now' = now + d
  /\ UNCHANGED <<tasks, store, pc, iterations, loadVars, runVars, iterVars, results,
                 globalError, mergeVars, exitStatus, fnVars>>

\* options.only: not given, or the one username to keep.
OnlyFilters == {NULLS}

\* A process starts run(options); loadTasksFromDatabase(limit, frequencyGroup)
\* returns the selected rows.
LoadTasks ==
  /\ Stopped
  /\ \E fg \in FrequencyFilters, lim \in 1..MaxSampleSize, coe \in BOOLEAN :
       /\ frequencyGroup' = fg
       /\ limit' = lim
       /\ continueOnError' = coe
       /\ taskRows' \in getPendingTasksByFrequency(tasks, fg, lim, now)
  /\ selectedAt' = now
  /\ pendingUsers' = {}
  /\ user' = 0
  /\ before' = NoRow
  /\ result' = NoResult
  /\ error' = NULLS
  /\ results' = << >>
  /\ globalError' = NULLS
  /\ pc' = "loaded"
  /\ exitStatus' = NULL
  /\ UNCHANGED <<now, tasks, store, iterations, mergeVars, fnVars>>

\* getPendingTasksByFrequency throws: run()'s outer catch reports it.
LoadTasksFails ==
  /\ Stopped
  /\ \E coe \in BOOLEAN : continueOnError' = coe
  /\ frequencyGroup' = "all"
  /\ limit' = 0
  /\ selectedAt' = NULL
  /\ taskRows' = {}
  /\ pendingUsers' = {}
  /\ user' = 0
  /\ before' = NoRow
  /\ result' = NoResult
  /\ error' = NULLS
  /\ results' = << >>
  /\ globalError' = StoreError
  /\ pc' = "done"
  /\ exitStatus' = NULL
  /\ UNCHANGED <<now, tasks, store, iterations, mergeVars, fnVars>>

\* run(): the loaded rows become pendingUsers (the --only filter applied);
\* with none left the report is made at once.
BeginLoop ==
  /\ pc = "loaded"
  /\ \E only \in OnlyFilters :
       pendingUsers' = {r.id : r \in {x \in taskRows : only = NULLS \/ x.username = only}}
  /\ pc' = IF pendingUsers' = {} THEN "done" ELSE "loop"
  /\ frequencyGroup' = "all"
  /\ limit' = 0
  /\ selectedAt' = NULL
  /\ taskRows' = {}
  /\ UNCHANGED <<now, tasks, store, iterations, continueOnError, iterVars, results,
                 globalError, mergeVars, exitStatus, fnVars>>

\* The iteration entered without the 'running' mark being written.
MarkRunningNotWritten ==
  /\ pc = "loop"
  /\ iterations < MaxIterations
  /\ \E id \in pendingUsers :
       /\ user' = id
       /\ before' = tasks[id]
       /\ pendingUsers' = pendingUsers \ {id}
  /\ iterations' = iterations + 1
  /\ pc' = "collect"
  /\ UNCHANGED <<now, tasks, store, loadVars, continueOnError, result, error, results,
                 globalError, mergeVars, exitStatus, fnVars>>

\* Top of an iteration: updateTaskStatus(taskId, 'running').  The rows come
\* back in no stated order (the task query has no ORDER BY), so any loaded
\* task may be the next.
MarkRunning ==
  /\ pc = "loop"
  /\ iterations < MaxIterations
  /\ \E id \in pendingUsers :
       /\ user' = id
       /\ before' = tasks[id]
       /\ pendingUsers' = pendingUsers \ {id}
       /\ tasks' = updateTaskStatus(tasks, id, "running", NULLS, NULL, now)
  /\ iterations' = iterations + 1
  /\ pc' = "collect"
  /\ UNCHANGED <<now, store, loadVars, continueOnError, result, error, results,
                 globalError, mergeVars, exitStatus, fnVars>>

\* updateTaskStatus(taskId, 'running') throws: the iteration's catch runs.
MarkRunningFails ==
  /\ pc = "loop"
  /\ iterations < MaxIterations
  /\ \E id \in pendingUsers :
       /\ user' = id
       /\ before' = tasks[id]
       /\ pendingUsers' = pendingUsers \ {id}
  /\ iterations' = iterations + 1
  /\ error' = StoreError
  /\ pc' = "catch"
  /\ UNCHANGED <<now, tasks, store, loadVars, continueOnError, result, results,
                 globalError, mergeVars, exitStatus, fnVars>>

\* The loop is over: generateReport().
Finish ==
  /\ pc = "loop"
  /\ pendingUsers = {}
  /\ pc' = "done"
  /\ UNCHANGED <<now, tasks, store, iterations, loadVars, runVars, iterVars, results,
                 globalError, mergeVars, exitStatus, fnVars>>

\* What the Collector may hand over for a task of the given type
\* (readDownloadedFile never returns an empty list).
CollectorBatches(type) ==
  CASE type = "posts" ->
         {<<RawPost(1, 0, "Post", "a", ""), RawPost(2, 0, "Post", "a", "")>>}
    [] type = "replies" ->
         {<<RawPost(1, 0, "Post", "a", ""), RawPost(3, 0, "Reply", "a", "")>>}
    [] OTHER ->
         {<<RawFollow(7, "carol", "x")>>}

\* The store calls of a merge that are made to throw inside a batch run.
BatchFailPoints == {"lookup", "write"}

\* collectForUser(user) returns: the Collector delivered and the merge
\* succeeded; the success entry is pushed to this.results.
CollectSucceeds ==
  /\ pc = "collect"
  /\ \E d \in CollectTimes : now' = now + d
  /\ \E rawData \in CollectorBatches(tasks[user].task_type), nullOk \in BOOLEAN :
       LET r == processCollectedData(store, tasks[user].username, tasks[user].task_type,
                                     rawData, "none", 0, nullOk)
       IN  /\ r.ok
           /\ store' = r.store
           /\ result' = [ok |-> TRUE, total |-> r.total, new |-> r.new]
           /\ results' = Append(results, [taskId |-> user, status |-> "success",
                                          dataCount |-> r.total, error |-> NULLS])
  /\ pc' = "frequency"
  /\ UNCHANGED <<tasks, iterations, loadVars, runVars, user, before, error, globalError,
                 mergeVars, exitStatus, fnVars>>

\* The Collector throws (no export, no dashboard, no downloaded file).
CollectorFails ==
  /\ pc = "collect"
  /\ \E d \in CollectTimes : now' = now + d
  /\ error' = CollectorError
  /\ pc' = "catch"
  /\ UNCHANGED <<tasks, store, iterations, loadVars, runVars, user, before, result,
                 results, globalError, mergeVars, exitStatus, fnVars>>

\* The Collector delivered and a store call of the merge throws.
MergeFails ==
  /\ pc = "collect"
  /\ \E d \in CollectTimes : now' = now + d
  /\ \E rawData \in CollectorBatches(tasks[user].task_type), nullOk \in BOOLEAN,
        fail \in BatchFailPoints :
       LET r == processCollectedData(store, tasks[user].username, tasks[user].task_type,
                                     rawData, fail, 0, nullOk)
       IN  /\ ~r.ok
           /\ store' = r.store
           /\ error' = r.err
  /\ pc' = "catch"
  /\ UNCHANGED <<tasks, iterations, loadVars, runVars, user, before, result, results,
                 globalError, mergeVars, exitStatus, fnVars>>

\* updateUserFrequency(taskId, result.total || 0) returns.
UpdateFrequency ==
  /\ pc = "frequency"
  /\ \E sqlStrict \in BOOLEAN, decimalAsText \in BOOLEAN :
       LET r == updateUserFrequency(tasks, user, result.total, now, sqlStrict, decimalAsText)
       IN  /\ r.ok
           /\ tasks' = r.tasks
  /\ pc' = "complete"
  /\ UNCHANGED <<now, store, iterations, loadVars, runVars, iterVars, results,
                 globalError, mergeVars, exitStatus, fnVars>>

\* updateUserFrequency throws: the store is down, or the server rejects the
\* statement of a task that is not 'posts'.
UpdateFrequencyFails ==
  /\ pc = "frequency"
  /\ error' = StoreError
  /\ pc' = "catch"
  /\ UNCHANGED <<now, tasks, store, iterations, loadVars, runVars, user, before, result,
                 results, globalError, mergeVars, exitStatus, fnVars>>

\* updateTaskStatus(taskId, 'completed'): the iteration is over.
MarkCompleted ==
  /\ pc = "complete"
  /\ tasks' = updateTaskStatus(tasks, user, "completed", NULLS, NULL, now)
  /\ pc' = "loop"
  /\ user' = 0
  /\ before' = NoRow
  /\ result' = NoResult
  /\ UNCHANGED <<now, store, iterations, loadVars, runVars, error, results, globalError,
                 mergeVars, exitStatus, fnVars>>

\* updateTaskStatus(taskId, 'completed') throws.
MarkCompletedFails ==
  /\ pc = "complete"
  /\ error' = StoreError
  /\ pc' = "catch"
  /\ UNCHANGED <<now, tasks, store, iterations, loadVars, runVars, user, before, result,
                 results, globalError, mergeVars, exitStatus, fnVars>>

\* The iteration's catch block: the error entry is pushed, the task is
\* marked failed with error.message, and the error is rethrown unless
\* continueOnError.
CatchError ==
  /\ pc = "catch"
  /\ results' = Append(results, [taskId |-> user, status |-> "error",
                                 dataCount |-> 0, error |-> error])
  /\ tasks' = updateTaskStatus(tasks, user, "failed", error, NULL, now)
  /\ IF continueOnError
       THEN pc' = "loop" /\ UNCHANGED globalError
       ELSE pc' = "done" /\ globalError' = error
  /\ user' = 0
  /\ before' = NoRow
  /\ result' = NoResult
  /\ error' = NULLS
  /\ UNCHANGED <<now, store, iterations, loadVars, runVars, mergeVars, exitStatus, fnVars>>

\* The catch block's own updateTaskStatus(taskId, 'failed', ...) throws: the
\* error leaves the loop and run()'s outer catch reports it.
CatchErrorFails ==
  /\ pc = "catch"
  /\ results' = Append(results, [taskId |-> user, status |-> "error",
                                 dataCount |-> 0, error |-> error])
  /\ globalError' = StoreError
  /\ pc' = "done"
  /\ user' = 0
  /\ before' = NoRow
  /\ result' = NoResult
  /\ error' = NULLS
  /\ UNCHANGED <<now, tasks, store, iterations, loadVars, runVars, mergeVars, exitStatus, fnVars>>

\* The worker process dies inside the loop; only the tables survive.
Crash ==
  /\ pc \in {"loop", "collect", "frequency", "complete", "catch"}
  /\ pc' = "crashed"
  /\ pendingUsers' = {}
  /\ user' = 0
  /\ before' = NoRow
  /\ result' = NoResult
  /\ error' = NULLS
  /\ results' = << >>
  /\ continueOnError' = TRUE
  /\ globalError' = NULLS
  /\ UNCHANGED <<now, tasks, store, iterations, loadVars, mergeVars, exitStatus, fnVars>>

\* generateReport taking errorCount from the error it was handed instead of
\* from the entries.
generateReportFromGlobal(res, err) ==
  [totalUsers |-> Len(res),
   successCount |-> Cardinality({i \in 1..Len(res) : res[i].status = "success"}),
   errorCount |-> IF err = NULLS THEN 0 ELSE 1,
   globalError |-> err]

\* generateReport(error): the report run() returns.
generateReport(res, err) ==
  [totalUsers |-> Len(res),
   successCount |-> Cardinality({i \in 1..Len(res) : res[i].status = "success"}),
   errorCount |-> Cardinality({i \in 1..Len(res) : res[i].status = "error"}),
   globalError |-> err]

\* The report of the run that has just returned.
Report == generateReport(results, globalError)

\* main(): the exit status of the process; 1 when runBatch threw (main's
\* catch calls process.exit(1)), 0 when it returned.
mainExitStatus(threw) == IF threw THEN 1 ELSE 0

\* run() returned its report to runBatch and main(): the process ends, and
\* only the tables and its exit status survive it.
Exit ==
  /\ pc = "done"
  /\ pc' = "exited"
  /\ exitStatus' = mainExitStatus(FALSE)
  /\ continueOnError' = TRUE
  /\ pendingUsers' = {}
  /\ results' = << >>
  /\ globalError' = NULLS
  /\ UNCHANGED <<now, tasks, store, iterations, loadVars, iterVars, mergeVars, fnVars>>

\* runBatch throws before run() is called (init or ensureLoggedIn fails):
\* main's catch ends the process.
StartFails ==
  /\ Stopped
  /\ pc' = "exited"
  /\ exitStatus' = mainExitStatus(TRUE)
  /\ frequencyGroup' = "all"
  /\ limit' = 0
  /\ selectedAt' = NULL
  /\ taskRows' = {}
  /\ pendingUsers' = {}
  /\ user' = 0
  /\ before' = NoRow
  /\ result' = NoResult
  /\ error' = NULLS
  /\ results' = << >>
  /\ globalError' = NULLS
  /\ continueOnError' = TRUE
  /\ UNCHANGED <<now, tasks, store, iterations, mergeVars, fnVars>>

Next ==
  \/ Tick
  \/ LoadTasks
  \/ LoadTasksFails
  \/ BeginLoop
  \/ MarkRunning
  \/ MarkRunningFails
  \/ Finish
  \/ CollectSucceeds
  \/ CollectorFails
  \/ MergeFails
  \/ UpdateFrequency
  \/ UpdateFrequencyFails
  \/ MarkCompleted
  \/ MarkCompletedFails
  \/ CatchError
  \/ CatchErrorFails
  \/ Crash
  \/ Exit
  \/ StartFails

Spec == Init /\ [][Next]_vars

(* ------------------- single collections (collectForUser) -------------- *)
\* Single-task collections performed in a row, at most.
MaxMerges == 2

MergeTypes == {"posts", "replies", "followers", "following"}

\* Rows of a tweet export: post 1 with text a, post 1 with text b, a reply
\* 2, and a row without any id.
P1a == RawPost(1, 0, "Post", "a", "")
P1b == RawPost(1, 0, "Post", "b", "")
P2r == RawPost(2, 0, "Reply", "a", "")
Pnone == RawPost(0, 0, "Post", "a", "")
PostBatches == {<<P1a>>, <<P1b>>, <<P1a, P2r>>, <<P1a, P1b>>, <<Pnone, P1a>>, <<Pnone>>}

\* Rows of a follower export: user 7 under two display names, user 8, and
\* a row without User ID.
F7x == RawFollow(7, "carol", "x")
F7y == RawFollow(7, "carol", "y")
F8x == RawFollow(8, "dave", "x")
Fnone == RawFollow(0, "erin", "x")
FollowBatches == {<<F7x>>, <<F7y>>, <<F7x, F8x>>, <<F7x, F7y>>, <<Fnone, F7x>>}

\* Whether follower_user_id admits NULL matters to the followers branch only.
NullOkChoices(type) == IF type = "followers" THEN BOOLEAN ELSE {TRUE}

MergeBatches(type) == IF type \in {"posts", "replies"} THEN PostBatches ELSE FollowBatches

\* collectForUser's last step outside a batch: processCollectedData(username,
\* type, rawData) on a downloaded file; it returns or throws.
Merge ==
  /\ pc = "idle"
  /\ merges < MaxMerges
  /\ \E username \in Usernames, type \in MergeTypes, fail \in FailPoints :
       \E rawData \in MergeBatches(type), nullOk \in NullOkChoices(type) :
         LET r == processCollectedData(store, username, type, rawData, fail, 0, nullOk)
         IN  /\ fail # "none" => ~r.ok
             /\ store' = r.store
             /\ last' = [username |-> username, type |-> type, rawData |-> rawData,
                         ok |-> r.ok, total |-> r.total, new |-> r.new,
                         updated |-> r.updated,
                         rowsBefore |-> RowCount(store), rows |-> RowCount(r.store),
                         fromEmpty |-> store = EmptyStore,
                         again |-> /\ last.ok
                                   /\ last.username = username
                                   /\ last.type = type
                                   /\ last.rawData = rawData,
                         prevFromEmpty |-> last.fromEmpty,
                         prevNew |-> last.new,
                         prevData |-> last.rawData,
                         injected |-> fail # "none"]
  /\ merges' = merges + 1
  /\ UNCHANGED <<now, tasks, pc, iterations, loadVars, runVars, iterVars, results,
                 globalError, exitStatus, fnVars>>

NextMerge == Merge

SpecMerge == Init /\ [][NextMerge]_vars

(* ------------- the schedule of one posts task, run after run ---------- *)
\* How long a collection of the task may take (minutes), and the totals a
\* merge may report for it.
Durations == {0, 30, 120, 720}
ObservedCounts == {0, 1, 50, 400}

\* The posts task whose schedule is followed.
PostsTask == 1

\* An iteration starts on the posts task: updateTaskStatus(taskId, 'running').
RateStart ==
  /\ pc = "idle"
  /\ tasks' = updateTaskStatus(tasks, PostsTask, "running", NULLS, NULL, now)
  /\ pc' = "observing"
  /\ UNCHANGED <<now, store, iterations, loadVars, runVars, iterVars, results,
                 globalError, mergeVars, exitStatus, fnVars>>

\* What updateUserFrequency throws when its console.log fails.
TypeError == "avgPostsPerDay.toFixed is not a function"

\* The collection returns after d minutes with a total: updateUserFrequency
\* (taskId, total), then updateTaskStatus(taskId, 'completed'); when
\* updateUserFrequency throws, the catch block's updateTaskStatus(taskId,
\* 'failed', error.message) instead.
RateObserve ==
  /\ pc = "observing"
  /\ \E d \in Durations, total \in ObservedCounts, decimalAsText \in BOOLEAN :
       /\ now + d <= MaxTime
       /\ now' = now + d
       /\ LET r == updateUserFrequency(tasks, PostsTask, total, now', FALSE, decimalAsText)
          IN  tasks' = IF r.ok
                         THEN updateTaskStatus(r.tasks, PostsTask, "completed", NULLS, NULL, now')
                         ELSE updateTaskStatus(r.tasks, PostsTask, "failed", TypeError, NULL, now')
  /\ pc' = "idle"
  /\ UNCHANGED <<store, iterations, loadVars, runVars, iterVars, results, globalError,
                 mergeVars, exitStatus, fnVars>>

NextRate == RateStart \/ RateObserve

SpecRate == Init /\ [][NextRate]_vars

(* ------------------- functions called by themselves ------------------- *)
\* One call is made from the initial state; input and output keep its
\* arguments and what it returned.
\* Rates (thousandths of a post per day) around every threshold.
RateSamples ==
  {0, 1, 299, 300, 301, 799, 800, 801, 1599, 1600, 1601, 2000, 3499, 3500, 3501,
   6999, 7000, 7001, 50000, 100000}

\* Steps 4-5 of updateUserFrequency on a rate: the group and its interval.
Classify(rate) ==
  [group |-> GroupOfRate(rate), hours |-> groupToHoursMap(GroupOfRate(rate))]

\* Two rates are classified.
ClassifyTwo ==
  /\ input = NoCall
  /\ \E r1 \in RateSamples, r2 \in RateSamples :
       /\ input' = [fn |-> "classify", r1 |-> r1, r2 |-> r2]
       /\ output' = [fn |-> "classify", c1 |-> Classify(r1), c2 |-> Classify(r2)]
  /\ UNCHANGED <<now, tasks, store, pc, iterations, loadVars, runVars, iterVars,
                 results, globalError, mergeVars, exitStatus>>

\* Half hours of clock covered, and the minute offsets inside them.
MaxHalfHours == 96
ClockSamples == {m * 30 + o : m \in 0..MaxHalfHours, o \in {0, 7}}
\* Intervals asked for (hours).
MaxHours == 24

\* calculateNextRunTime(hours) is called at some instant.
NextRunTime ==
  /\ input = NoCall
  /\ \E hours \in 1..MaxHours, t \in ClockSamples :
       /\ input' = [fn |-> "nextRun", hours |-> hours, t |-> t]
       /\ output' = [fn |-> "nextRun", at |-> calculateNextRunTime(hours, t)]
  /\ UNCHANGED <<now, tasks, store, pc, iterations, loadVars, runVars, iterVars,
                 results, globalError, mergeVars, exitStatus>>

\* Longest replies listing walked.
MaxReplyRows == 4
\* Listings whose i-th row has id i and is a Post or a Reply.
ReplyListings ==
  UNION {{[i \in 1..n |-> RawPost(i, 0, IF i \in R THEN "Reply" ELSE "Post", "a", "")] :
            R \in SUBSET (1..n)} : n \in 1..MaxReplyRows}

\* The replies pass of processPostsData walks a listing.
InferReplies ==
  /\ input = NoCall
  /\ \E rows \in ReplyListings :
       /\ input' = [fn |-> "infer", rows |-> rows]
       /\ output' = [fn |-> "infer", rows |-> inferReplyLinks(rows, 1, 0, 0)]
  /\ UNCHANGED <<now, tasks, store, pc, iterations, loadVars, runVars, iterVars,
                 results, globalError, mergeVars, exitStatus>>

\* Rates a posts task may carry from its earlier runs, the totals seen then,
\* and the minutes from last_run_at to the update.
PriorRates == {0, 1, 299, 2000, 3500, 100000}
PriorCounts == {1, 50}
Elapsed == {0, 30, 57, 58, 120, 719, 720, 1500}

\* The row of a posts task that has run before: marked running at instant 0.
PriorRow(rate, count) ==
  [NewTaskRow(PostsTask, TRUE) EXCEPT !.status = "running",
                                      !.last_run_at = 0,
                                      !.last_post_count = count,
                                      !.avg_posts_per_day = rate,
                                      !.frequency_group = GroupOfRate(rate)]

\* updateUserFrequency(taskId, total) is called on such a row.
UpdateSchedule ==
  /\ input = NoCall
  /\ \E rate \in PriorRates, count \in PriorCounts, mins \in Elapsed,
        total \in ObservedCounts, decimalAsText \in BOOLEAN :
       LET row == PriorRow(rate, count)
           r == updateUserFrequency([tasks EXCEPT ![PostsTask] = row], PostsTask,
                                    total, mins, FALSE, decimalAsText)
       IN  /\ input' = [fn |-> "schedule", row |-> row, total |-> total, mins |-> mins,
                        decimalAsText |-> decimalAsText]
           /\ output' = [fn |-> "schedule", ok |-> r.ok, row |-> r.tasks[PostsTask]]
  /\ UNCHANGED <<now, tasks, store, pc, iterations, loadVars, runVars, iterVars,
                 results, globalError, mergeVars, exitStatus>>

\* Export rows with every combination of the id columns present: ID 1,
\* id 2, tweet_id 3, status_id 4, User ID 5 (0: the column is absent).
IdRecords ==
  {[RawPost(a, c, "Post", "a", "") EXCEPT !.id = b, !.status_id = d, !.UserID = e] :
     a \in {0, 1}, b \in {0, 2}, c \in {0, 3}, d \in {0, 4}, e \in {0, 5}}

\* processPostsData(username, type, [record]) on the empty store: the id the
\* merge validated and classified the record by, and the rows written.
StorePost ==
  /\ input = NoCall
  /\ \E rec \in IdRecords, type \in {"posts", "replies"} :
       LET r == processPostsData(EmptyStore, "alice", type, <<rec>>, "none", 0)
       IN  /\ input' = [fn |-> "storePost", type |-> type, rec |-> rec]
           /\ output' = [fn |-> "storePost", ok |-> r.ok, total |-> r.total,
                         itemId |-> getItemId(rec), posts |-> r.store.posts]
  /\ UNCHANGED <<now, tasks, store, pc, iterations, loadVars, runVars, iterVars, results,
                 globalError, mergeVars, exitStatus>>

NextFn == ClassifyTwo \/ NextRunTime \/ InferReplies \/ UpdateSchedule \/ StorePost

SpecFn == Init /\ [][NextFn]_vars

(* ------------- a bulk write of several statements, retried ------------ *)
\* Rows per statement of batchUpsertPosts here: batchSize scaled down, so
\* that a batch of a few records is written by more than one statement.
ChunkRows == 2
\* Merges attempted, the retries counted.
MaxAttempts == 3

\* Batches of three or four records: two statements each.
ChunkBatches(type) ==
  IF type = "replies"
    THEN {<<RawPost(1, 0, "Post", "a", ""), RawPost(2, 0, "Reply", "a", ""),
            RawPost(3, 0, "Reply", "a", "")>>}
    ELSE {<<RawPost(1, 0, "Post", "a", ""), RawPost(2, 0, "Post", "a", ""),
            RawPost(3, 0, "Post", "a", "")>>,
          <<RawPost(1, 0, "Post", "b", ""), RawPost(2, 0, "Post", "a", ""),
            RawPost(3, 0, "Post", "b", ""), RawPost(4, 0, "Post", "a", "")>>,
          <<RawPost(1, 0, "Post", "a", ""), RawPost(2, 0, "Post", "a", ""),
            RawPost(1, 0, "Post", "b", "")>>,
          <<RawPost(1, 0, "Post", "a", ""), Pnone, RawPost(2, 0, "Post", "b", ""),
            RawPost(5, 0, "Post", "a", "")>>}

\* The arguments of the merge to attempt: those of the merge that has just
\* thrown (it is run again), or new ones.
ChunkArgs ==
  IF output.fn = "merge" /\ ~output.ok
    THEN {[username |-> input.username, type |-> input.type, rawData |-> input.rawData]}
    ELSE {[username |-> u, type |-> ty, rawData |-> raw] :
            u \in Usernames, ty \in {"posts", "replies"},
            raw \in ChunkBatches("posts") \cup ChunkBatches("replies")}

\* What `input` keeps of an attempt: the arguments, the store the first
\* attempt found, the attempts made, the statements the last failure left.
Attempt(a, done) ==
  IF output.fn = "merge" /\ ~output.ok
    THEN [input EXCEPT !.attempts = @ + 1, !.done = done]
    ELSE [fn |-> "merge", username |-> a.username, type |-> a.type, rawData |-> a.rawData,
          origin |-> store, attempts |-> 1, done |-> done]

\* processCollectedData(username, type, rawData) returns.
ChunkMergeReturns ==
  /\ pc = "idle"
  /\ merges < MaxAttempts
  /\ \E a \in ChunkArgs :
       LET r == processPostsDataBy(store, a.username, a.type, a.rawData, "none", 0, ChunkRows)
       IN  /\ a.rawData \in ChunkBatches(a.type)
           /\ r.ok
           /\ store' = r.store
           /\ input' = Attempt(a, IF output.fn = "merge" /\ ~output.ok THEN input.done
                                   ELSE NULL)
           /\ output' = [fn |-> "merge", ok |-> TRUE, error |-> NULLS]
  /\ merges' = merges + 1
  /\ UNCHANGED <<now, tasks, pc, iterations, loadVars, runVars, iterVars, results,
                 globalError, last, exitStatus>>

\* A statement of batchUpsertPosts throws after `done` statements: the
\* error reaches the caller of processCollectedData.
ChunkMergeThrows ==
  /\ pc = "idle"
  /\ merges < MaxAttempts
  /\ \E a \in ChunkArgs :
       \E done \in 0..(NumChunksBy(FilterValid(a.rawData), ChunkRows) - 1) :
         LET r == processPostsDataBy(store, a.username, a.type, a.rawData, "write",
                                     done, ChunkRows)
         IN  /\ a.rawData \in ChunkBatches(a.type)
             /\ ~r.ok
             /\ store' = r.store
             /\ input' = Attempt(a, done)
             /\ output' = [fn |-> "merge", ok |-> FALSE, error |-> r.err]
  /\ merges' = merges + 1
  /\ UNCHANGED <<now, tasks, pc, iterations, loadVars, runVars, iterVars, results,
                 globalError, last, exitStatus>>

NextChunk == ChunkMergeReturns \/ ChunkMergeThrows

SpecChunk == Init /\ [][NextChunk]_vars

(* ---------------- merges that name users already stored -------------- *)
\* A post of the export whose Author Username is carol (a retweet), and a
\* follow row that names carol without a User ID.
P1c == RawPost(1, 0, "Post", "a", "carol")
Fanon == RawFollow(0, "carol", "x")

UserBatches(type) ==
  IF type \in {"posts", "replies"} THEN {<<P1a>>, <<P1c>>, <<Pnone>>}
  ELSE {<<F7x>>, <<Fanon>>}

\* collectForUser's last step outside a batch, on these exports: the store
\* answers every call.
MergeUsers ==
  /\ pc = "idle"
  /\ merges < MaxMerges
  /\ \E username \in Usernames, type \in MergeTypes :
       \E rawData \in UserBatches(type), nullOk \in NullOkChoices(type) :
         LET r == processCollectedData(store, username, type, rawData, "none", 0, nullOk)
         IN  /\ store' = r.store
             /\ last' = [username |-> username, type |-> type, rawData |-> rawData,
                         ok |-> r.ok, total |-> r.total, new |-> r.new,
                         updated |-> r.updated,
                         rowsBefore |-> RowCount(store), rows |-> RowCount(r.store),
                         fromEmpty |-> store = EmptyStore,
                         again |-> /\ last.ok
                                   /\ last.username = username
                                   /\ last.type = type
                                   /\ last.rawData = rawData,
                         prevFromEmpty |-> last.fromEmpty,
                         prevNew |-> last.new,
                         prevData |-> last.rawData,
                         injected |-> FALSE]
  /\ merges' = merges + 1
  /\ UNCHANGED <<now, tasks, pc, iterations, loadVars, runVars, iterVars, results,
                 globalError, exitStatus, fnVars>>

NextUsers == MergeUsers

SpecUsers == Init /\ [][NextUsers]_vars

(* ------------------------ DatabaseManager.upsertTask ----------------- *)
\* A row of scrape_tasks with its column max_count.
WithMaxCount(row, maxCount) ==
  [f \in DOMAIN row \cup {"max_count"} |-> IF f = "max_count" THEN maxCount ELSE row[f]]

\* The unique key of scrape_tasks the ON DUPLICATE KEY clause fires on.
TaskConflict(row, username, taskType) ==
  row.username = username /\ row.task_type = taskType

\* The registration written as REPLACE INTO: the row is made anew.
upsertTaskReplace(rows, username, taskType, maxCount) ==
  LET hit == {r \in rows : TaskConflict(r, username, taskType)}
  IN  (rows \ hit) \cup
      {WithMaxCount([NewTaskRow(NextId(rows), TRUE) EXCEPT !.username = username,
                                                          !.task_type = taskType],
                    maxCount)}

\* upsertTask(username, taskType, maxCount) on the rows of scrape_tasks.
upsertTask(rows, username, taskType, maxCount) ==
  LET hit == {r \in rows : TaskConflict(r, username, taskType)}
  IN  IF hit = {}
        THEN rows \cup
             {WithMaxCount([NewTaskRow(NextId(rows), TRUE) EXCEPT !.username = username,
                                                                 !.task_type = taskType],
                           maxCount)}
        ELSE LET old == CHOOSE r \in hit : TRUE
             IN  (rows \ {old}) \cup
                 {[old EXCEPT !.max_count = maxCount, !.enabled = TRUE,
                              !.status = "pending"]}

\* The pairs an operator registers, and the states a registered row may be
\* in: never run, run to completion, failed, left running, disabled after
\* a completed run.
RegPairs == {<<"alice", "posts">>, <<"alice", "followers">>, <<"bob", "posts">>}
PairId(p) ==
  CASE p = <<"alice", "posts">> -> 1 [] p = <<"alice", "followers">> -> 2 [] OTHER -> 3
RowStates == {"new", "completed", "failed", "running", "disabled"}
MaxCounts == {NULL, 50, 100}

\* Task 1 of the initial table after a first run that found 2 posts.
RunRow(st) ==
  LET t0 == [id \in TaskIds |-> NewTaskRow(id, TRUE)]
      t1 == updateTaskStatus(t0, 1, "running", NULLS, NULL, 0)
      t2 == updateUserFrequency(t1, 1, 2, 30, FALSE, FALSE).tasks
      t3 == updateTaskStatus(t2, 1, "completed", NULLS, NULL, 30)
  IN  CASE st = "new" -> t0[1]
        [] st = "running" -> t1[1]
        [] st = "failed" -> updateTaskStatus(t1, 1, "failed", CollectorError, NULL, 30)[1]
        [] st = "completed" -> t3[1]
        [] OTHER -> [t3[1] EXCEPT !.enabled = FALSE]

RegRow(p, st, maxCount) ==
  WithMaxCount([RunRow(st) EXCEPT !.id = PairId(p), !.username = p[1], !.task_type = p[2]],
               maxCount)

\* Tables with at most one row for a pair.
RegTables ==
  {{RegRow(p, f[p].st, f[p].maxCount) : p \in S} :
     S \in SUBSET RegPairs, f \in [RegPairs -> [st : RowStates, maxCount : {NULL, 50}]]}

\* An operator registers (username, taskType) with maxCount.
Register ==
  /\ input = NoCall
  /\ \E table \in RegTables, p \in RegPairs, maxCount \in MaxCounts :
       /\ input' = [fn |-> "upsertTask", table |-> table, username |-> p[1],
                    taskType |-> p[2], maxCount |-> maxCount]
       /\ output' = [fn |-> "upsertTask",
                     table |-> upsertTask(table, p[1], p[2], maxCount)]
  /\ UNCHANGED <<now, tasks, store, pc, iterations, loadVars, runVars, iterVars, results,
                 globalError, mergeVars, exitStatus>>

NextRegister == Register

SpecRegister == Init /\ [][NextRegister]_vars

(* ------------------- BatchRunner.processUser ------------------------- *)
\* Minutes processUser adds to now for the next run of a completed task.
processUserDelay == 120

\* processUser(user) returns 'success': the task is marked running, the
\* collection and the merge succeed, and the task is marked completed with
\* nextRunAt = now + 2 h.
ProcessUserSucceeds ==
  /\ Stopped
  /\ merges < MaxMerges
  /\ \E id \in TaskIds \ Disabled :
       \E rawData \in CollectorBatches(tasks[id].task_type), nullOk \in BOOLEAN :
         LET r == processCollectedData(store, tasks[id].username, tasks[id].task_type,
                                       rawData, "none", 0, nullOk)
             running == updateTaskStatus(tasks, id, "running", NULLS, NULL, now)
         IN  /\ r.ok
             /\ store' = r.store
             /\ tasks' = updateTaskStatus(running, id, "completed", NULLS,
                                          now + processUserDelay, now)
  /\ merges' = merges + 1
  /\ UNCHANGED <<now, pc, iterations, loadVars, runVars, iterVars, results, globalError,
                 last, exitStatus, fnVars>>

\* processUser(user) returns 'error': the Collector throws and the task is
\* marked failed with the message, no nextRunAt given.
ProcessUserFails ==
  /\ Stopped
  /\ merges < MaxMerges
  /\ \E id \in TaskIds \ Disabled :
       tasks' = updateTaskStatus(updateTaskStatus(tasks, id, "running", NULLS, NULL, now),
                                 id, "failed", CollectorError, NULL, now)
  /\ merges' = merges + 1
  /\ UNCHANGED <<now, store, pc, iterations, loadVars, runVars, iterVars, results,
                 globalError, last, exitStatus, fnVars>>

\* A caller marks a task failed and asks for a retry not before `nextRunAt`.
MarkFailedUntil ==
  /\ Stopped
  /\ merges < MaxMerges
  /\ \E id \in TaskIds \ Disabled, nextRunAt \in {now + processUserDelay} :
       tasks' = updateTaskStatus(tasks, id, "failed", CollectorError, nextRunAt, now)
  /\ merges' = merges + 1
  /\ UNCHANGED <<now, store, pc, iterations, loadVars, runVars, iterVars, results,
                 globalError, last, exitStatus, fnVars>>

NextDelay == Tick \/ ProcessUserSucceeds \/ ProcessUserFails \/ MarkFailedUntil \/ LoadTasks

SpecDelay == Init /\ [][NextDelay]_vars

(* --------------- ExtensionController.monitorProgress ----------------- *)
\* The limits of the loop: seconds to wait at most, iterations without
\* progress, iterations with a stable count, evaluate timeouts in a row, and
\* the seconds after which the extension is triggered once more.
maxWaitTime == 60
maxNoProgress == 25
maxStableCount == 20
maxEvaluateTimeout == 10
retriggerAfter == 10
\* Seconds the timers of bringToFront and of evaluate run, and the seconds
\* triggerExtensionStart sleeps (1500 ms, rounded up).
bringToFrontTimeout == 3
evaluateTimeout == 5
triggerSleep == 2

\* The largest reading of Date.now() - startTime told apart (seconds).
MaxElapsed == 70

\* maxCount of the task (0: none) and the counts the dashboard may show.
Targets == {0, 500}
Counts == {0, 2}

\* What one iteration finds: the page closed, bringToFront failing, evaluate
\* rejecting, evaluate answering after the timer, or the page's answer (a
\* count with or without 'Extracting', or 300 rows and the notice of the
\* limit of 300).
Looks ==
  [kind : {"closed", "nofront", "rejected", "timeout"}, count : {0},
   has300Limit : {FALSE}, isExtracting : {FALSE}]
    \cup [kind : {"ok"}, count : Counts, has300Limit : {FALSE}, isExtracting : BOOLEAN]
    \cup {[kind |-> "ok", count |-> 300, has300Limit |-> TRUE, isExtracting |-> FALSE]}

\* How a dashboard behaves during one call: it shows `first` for the first
\* `after` passes of the loop and `then` from there on.
SwitchAfter == {0, 5, 30}
Dashboards == [first : Looks, then : Looks, after : SwitchAfter]
Shown(dashboard, passes) ==
  IF passes < dashboard.after THEN dashboard.first ELSE dashboard.then

\* monitorProgress's locals on entry, with the dashboard it watches and the
\* passes of the loop made.
MonitorEntry(targetCount, dashboard) ==
  [fn |-> "monitorProgress", targetCount |-> targetCount, elapsed |-> 0,
   lastCount |-> 0, noProgressCount |-> 0, stableCount |-> 0,
   evaluateTimeoutCount |-> 0, hasRetriggered |-> FALSE, done |-> FALSE,
   dashboard |-> dashboard, passes |-> 0]

\* One pass of the while (true) loop that waits `wait` seconds at most: the
\* locals after it, done when it left the loop by break.
monitorLoopBody(st, look, wait) ==
  LET retrigger == ~st.hasRetriggered /\ st.elapsed > retriggerAfter /\ st.lastCount <= 2
      st1 == IF retrigger THEN [st EXCEPT !.hasRetriggered = TRUE, !.noProgressCount = 0]
             ELSE st
      evaluateTimedOut == look.kind \in {"rejected", "timeout"}
      currentCount == IF look.kind = "timeout" THEN st1.lastCount ELSE look.count
      changed == currentCount > 0 /\ currentCount # st1.lastCount
      same == currentCount > 0 /\ currentCount = st1.lastCount
      stable == IF changed THEN 0
                ELSE IF same /\ ~look.isExtracting THEN st1.stableCount + 1
                ELSE IF same THEN 0
                ELSE st1.stableCount
      noProgress == IF changed THEN 0 ELSE st1.noProgressCount
      shouldStop == \/ st1.targetCount # 0 /\ currentCount >= st1.targetCount
                    \/ look.has300Limit /\ currentCount >= 300
                    \/ ~look.isExtracting /\ noProgress > maxNoProgress
                    \/ st1.targetCount = 0 /\ stable >= maxStableCount /\ currentCount > 0
      st2 == [st1 EXCEPT !.evaluateTimeoutCount = IF evaluateTimedOut THEN @ + 1 ELSE 0,
                         !.lastCount = IF changed THEN currentCount ELSE @,
                         !.stableCount = stable,
                         !.noProgressCount = noProgress]
      spent == 1 + (IF retrigger THEN triggerSleep ELSE 0)
                 + (IF look.kind = "nofront" THEN bringToFrontTimeout ELSE 0)
                 + (IF look.kind = "timeout" THEN evaluateTimeout ELSE 0)
      later == Min(st.elapsed + spent, MaxElapsed)
  IN  IF st.elapsed > wait THEN [st EXCEPT !.done = TRUE]
      ELSE IF st1.evaluateTimeoutCount >= maxEvaluateTimeout THEN [st1 EXCEPT !.done = TRUE]
      ELSE IF look.kind = "closed" THEN [st1 EXCEPT !.done = TRUE]
      ELSE IF look.kind = "nofront"
        THEN [st1 EXCEPT !.evaluateTimeoutCount = @ + 1, !.elapsed = later]
      ELSE IF shouldStop THEN [st2 EXCEPT !.done = TRUE]
      ELSE [st2 EXCEPT !.noProgressCount = IF look.isExtracting THEN 0 ELSE @ + 1,
                       !.elapsed = later]

\* The loop without the test of maxWaitTime.
monitorLoopNoCeiling(st, look) == monitorLoopBody(st, look, MaxElapsed)

\* One pass of monitorProgress's loop.
monitorLoop(st, look) == monitorLoopBody(st, look, maxWaitTime)

\* collectForUser step 3: monitorProgress(dashboardPage, maxCount) is called.
MonitorStart ==
  /\ input = NoCall
  /\ \E targetCount \in Targets, dashboard \in Dashboards :
       /\ dashboard.after = 0 => dashboard.first = dashboard.then
       /\ input' = MonitorEntry(targetCount, dashboard)
  /\ UNCHANGED <<now, tasks, store, pc, iterations, loadVars, runVars, iterVars, results,
                 globalError, mergeVars, exitStatus, output>>

\* The loop takes one pass, on what the dashboard shows by now.
MonitorPass ==
  /\ input.fn = "monitorProgress"
  /\ ~input.done
  /\ input' = [monitorLoop(input, Shown(input.dashboard, input.passes))
                 EXCEPT !.passes = Min(@ + 1, MaxElapsed)]
  /\ UNCHANGED <<now, tasks, store, pc, iterations, loadVars, runVars, iterVars, results,
                 globalError, mergeVars, exitStatus, output>>

\* monitorProgress has returned; collectForUser step 4 calls
\* clickExportButton(dashboardPage) on what the dashboard holds.
ClickExport ==
  /\ input.fn = "monitorProgress"
  /\ input.done
  /\ output = NoCall
  /\ output' = [fn |-> "clickExportButton", count |-> input.lastCount]
  /\ UNCHANGED <<now, tasks, store, pc, iterations, loadVars, runVars, iterVars, results,
                 globalError, mergeVars, exitStatus, input>>

NextMonitor == MonitorStart \/ MonitorPass \/ ClickExport

\* The event loop runs every timer and continuation of the worker.
SpecMonitor ==
  Init /\ [][NextMonitor]_vars /\ WF_vars(MonitorPass) /\ WF_vars(ClickExport)

(* ------------- scheduling cycles repeated without end ---------------- *)
\* Top of an iteration, in a worker that is started again and again:
\* updateTaskStatus(taskId, 'running') on any of the loaded tasks.
CycleMarkRunning ==
  /\ pc = "loop"
  /\ \E id \in pendingUsers :
       /\ user' = id
       /\ before' = tasks[id]
       /\ pendingUsers' = pendingUsers \ {id}
       /\ tasks' = updateTaskStatus(tasks, id, "running", NULLS, NULL, now)
  /\ pc' = "collect"
  /\ UNCHANGED <<now, store, iterations, loadVars, continueOnError, result, error,
                 results, globalError, mergeVars, exitStatus, fnVars>>

\* collectForUser(user) returns within the minute.
CycleCollectSucceeds ==
  /\ pc = "collect"
  /\ \E rawData \in CollectorBatches(tasks[user].task_type), nullOk \in BOOLEAN :
       LET r == processCollectedData(store, tasks[user].username, tasks[user].task_type,
                                     rawData, "none", 0, nullOk)
       IN  /\ r.ok
           /\ store' = r.store
           /\ result' = [ok |-> TRUE, total |-> r.total, new |-> r.new]
           /\ results' = Append(results, [taskId |-> user, status |-> "success",
                                          dataCount |-> r.total, error |-> NULLS])
  /\ pc' = "frequency"
  /\ UNCHANGED <<now, tasks, iterations, loadVars, runVars, user, before, error,
                 globalError, mergeVars, exitStatus, fnVars>>

\* collectForUser(user) throws within the minute.
CycleCollectorFails ==
  /\ pc = "collect"
  /\ error' = CollectorError
  /\ pc' = "catch"
  /\ UNCHANGED <<now, tasks, store, iterations, loadVars, runVars, user, before, result,
                 results, globalError, mergeVars, exitStatus, fnVars>>

\* A started run() takes its next step: every step of the loop moves pc.
CycleStep ==
  /\ ~Stopped
  /\ pc' \in {"loop", "collect", "frequency", "complete", "catch", "done", "exited"} \ {pc}

NextCycle ==
  \/ Tick
  \/ LoadTasks
  \/ BeginLoop
  \/ CycleMarkRunning
  \/ Finish
  \/ CycleCollectSucceeds
  \/ CycleCollectorFails
  \/ UpdateFrequency
  \/ UpdateFrequencyFails
  \/ MarkCompleted
  \/ CatchError
  \/ Exit

\* A cycle that asks for every frequency group draws username `u`.
LoadTasksWith(u) ==
  /\ LoadTasks
  /\ frequencyGroup' = "all"
  /\ \E r \in taskRows' : r.username = u

\* The worker is started again and again (cron), every started run goes on
\* to its end, and ORDER BY RAND() leaves no eligible username out for ever.
CycleFairness ==
  /\ WF_pc(CycleStep)
  /\ \A u \in Usernames : SF_vars(LoadTasksWith(u))

SpecCycle == Init /\ [][NextCycle]_vars /\ CycleFairness

(* ============================ properties ============================== *)

\* Usernames among the rows a selection returned.
ReturnedUsernames == {r.username : r \in taskRows}

\* Usernames the user query of the selection found eligible.
EligibleUsernames ==
  {tasks[i].username :
     i \in {j \in TaskIds : UserQueryWhere(tasks[j], frequencyGroup, selectedAt)}}

\* C1: the rows getPendingTasksByFrequency returns belong to at most
\* `limit` (the sample size) distinct usernames.
C1_SamplingBound ==
  pc = "loaded" => Cardinality(ReturnedUsernames) <= limit

\* C1, its case: two usernames were eligible, one was asked for, one came back.
C1_Witness ==
  /\ pc = "loaded"
  /\ limit = 1
  /\ EligibleUsernames = Usernames
  /\ Cardinality(ReturnedUsernames) = 1

\* C2: every row getPendingTasksByFrequency returns has next_run_time unset
\* or not later than the selection time.
C2_OnlyDueTasksReturned ==
  pc = "loaded" =>
    \A r \in taskRows : r.next_run_time = NULL \/ r.next_run_time <= selectedAt

\* C3: every row getPendingTasksByFrequency returns is enabled and not in
\* status running.
C3_EnabledNotRunning ==
  pc = "loaded" => \A r \in taskRows : r.enabled /\ r.status # "running"

\* C3, its case: a sampled username owns a running task and a disabled
\* task, and neither came back.
C3_Witness ==
  /\ pc = "loaded"
  /\ taskRows # {}
  /\ \E i \in TaskIds :
       /\ tasks[i].status = "running"
       /\ tasks[i].username \in ReturnedUsernames
       /\ tasks[i] \notin taskRows
  /\ \E j \in TaskIds :
       /\ ~tasks[j].enabled
       /\ tasks[j].username \in ReturnedUsernames
       /\ tasks[j] \notin taskRows

\* C4: with a frequency filter other than 'all', every row
\* getPendingTasksByFrequency returns has frequency_group equal to the filter.
C4_TierMatchesFilter ==
  (pc = "loaded" /\ frequencyGroup # "all") =>
    \A r \in taskRows : r.frequency_group = frequencyGroup

\* A step writes status completed or failed into row id.
SetsFinalStatus(id) ==
  /\ tasks'[id] # tasks[id]
  /\ tasks'[id].status \in {"completed", "failed"}

\* C5 as stated: the task is running while the Collector is invoked; a row
\* is set to completed or failed only when it was running; a crash while
\* the Collector or the merge is in progress leaves the row running.
C5_RunningBeforeFinal ==
  /\ [](pc = "collect" => tasks[user].status = "running")
  /\ [][\A id \in TaskIds : SetsFinalStatus(id) => tasks[id].status = "running"]_vars
  /\ [][(pc = "collect" /\ pc' = "crashed") => tasks'[user].status = "running"]_vars

\* C5, amended: as C5, but a row may also be set to failed by the iteration
\* that selected it when that iteration's own 'running' write threw, the
\* row being then still as the iteration found it.
C5_RunningBeforeFinalOrMarkFailed ==
  /\ [](pc = "collect" => tasks[user].status = "running")
  /\ [][\A id \in TaskIds :
          SetsFinalStatus(id) =>
            /\ id = user
            /\ \/ tasks[id].status = "running"
               \/ tasks'[id].status = "failed" /\ tasks[id] = before]_vars
  /\ [][(pc = "collect" /\ pc' = "crashed") => tasks'[user].status = "running"]_vars

\* C5, its case: the worker crashed inside an iteration whose task is left
\* running, after another task of the run was completed.
C5_Witness ==
  /\ pc = "crashed"
  /\ \E id \in TaskIds : tasks[id].status = "running"
  /\ \E id \in TaskIds : tasks[id].status = "completed"

\* C6: when collectForUser returned (Collector and merge succeeded) and the
\* iteration ran to its end, the row is completed with no error message,
\* its last_post_count is the merge's total and its next_run_time is the
\* one the Rate Classifier computes for the row's group at that instant.
C6_CompletedWithSchedule ==
  [][(pc = "complete" /\ result.ok /\ pc' = "loop") =>
       LET row == tasks'[user]
       IN  /\ row.status = "completed"
           /\ row.error_message = NULLS
           /\ row.last_post_count = result.total
           /\ row.next_run_time # NULL
           /\ row.next_run_time
                = calculateNextRunTime(groupToHoursMap(row.frequency_group), now)]_vars

\* C7: when the Collector or the merge threw for a task that was marked
\* running, the iteration leaves the row failed, its error_message the
\* thrown message, and next_run_time, frequency_group, avg_posts_per_day
\* and last_post_count as the iteration found them.
C7_FailedKeepsSchedule ==
  [][(pc = "catch" /\ ~result.ok /\ tasks[user].status = "running"
        /\ pc' \in {"loop", "done"}) =>
       LET row == tasks'[user]
       IN  /\ row.status = "failed"
           /\ row.error_message = error
           /\ row.next_run_time = before.next_run_time
           /\ row.frequency_group = before.frequency_group
           /\ row.avg_posts_per_day = before.avg_posts_per_day
           /\ row.last_post_count = before.last_post_count]_vars

\* A raw record that carries a usable id for its data type.
ValidRecord(type, item) ==
  IF type \in {"posts", "replies"} THEN getItemId(item) # 0 ELSE FollowUserId(item) # 0
AllValid(type, rawData) == \A i \in 1..Len(rawData) : ValidRecord(type, rawData[i])

\* The last merge repeated, with the same username, type and batch, a merge
\* that had started on the empty store, and both returned.
SecondOfTwo == last.ok /\ last.again /\ last.prevFromEmpty

\* C8: the same batch of N valid records merged twice from the empty store:
\* new = N the first time, new = 0 and updated = N the second time, and the
\* second merge leaves the number of stored rows as the first left it.
C8_MergeTwice ==
  (SecondOfTwo /\ AllValid(last.type, last.rawData)) =>
    /\ last.prevNew = Len(last.rawData)
    /\ last.new = 0
    /\ last.updated = Len(last.rawData)
    /\ last.rows = last.rowsBefore

\* The last occurrence of its id in the batch.
LastOfItsId(rawData, i) ==
  \A j \in (i + 1)..Len(rawData) : PostTweetId(rawData[j]) # PostTweetId(rawData[i])

\* C9: twitter_posts holds at most one row per tweet_id, and after a posts
\* merge returned, the row of every id of the batch carries the text the
\* batch gave it last.
C9_OneRowLatestText ==
  /\ \A r1, r2 \in store.posts : r1.tweet_id = r2.tweet_id => r1 = r2
  /\ (last.ok /\ last.type \in {"posts", "replies"}) =>
       \A i \in 1..Len(last.rawData) :
         (getItemId(last.rawData[i]) # 0 /\ LastOfItsId(last.rawData, i)) =>
           \E r \in store.posts :
             /\ r.tweet_id = PostTweetId(last.rawData[i])
             /\ r.text = last.rawData[i].Text

\* C9, its case: post 1 was merged with text a, then with text b; one row,
\* text b.
C9_Witness ==
  /\ last.ok
  /\ last.type = "posts"
  /\ last.prevData = <<P1a>>
  /\ last.rawData = <<P1b>>
  /\ last.rowsBefore = last.rows
  /\ \E r \in store.posts : r.tweet_id = 1 /\ r.text = "b"
  /\ Cardinality(store.posts) = 1

C11_RateClamp ==
  \/ tasks[PostsTask].avg_posts_per_day = NULL
  \/ /\ tasks[PostsTask].avg_posts_per_day >= 0
     /\ tasks[PostsTask].avg_posts_per_day <= 100000

\* C11, its case: an update computed a rate above 100 and persisted 100.
C11_Witness ==
  /\ pc = "idle"
  /\ tasks[PostsTask].avg_posts_per_day = 100000
  /\ tasks[PostsTask].last_post_count = 400

\* very_low < low < medium < medium_high < high < very_high
Urgency(g) ==
  CASE g = "very_low" -> 0 [] g = "low" -> 1 [] g = "medium" -> 2
    [] g = "medium_high" -> 3 [] g = "high" -> 4 [] g = "very_high" -> 5

\* C12: of two rates r1 < r2, r2's group is at least as urgent as r1's and
\* its interval is not longer.
C12_TierMonotonic ==
  (input.fn = "classify" /\ input.r1 < input.r2) =>
    /\ Urgency(output.c2.group) >= Urgency(output.c1.group)
    /\ output.c2.hours <= output.c1.hours

\* C12, its case: two rates on either side of a threshold got different groups.
C12_Witness ==
  /\ input.fn = "classify"
  /\ input.r1 = 3499
  /\ input.r2 = 3500
  /\ output.c1.group = "medium_high"
  /\ output.c2.group = "high"
  /\ output.c2.hours < output.c1.hours

\* Hour of the day, UTC+8, of an instant.
LocalHour(t) == ((t + BeijingOffset) \div MinutesPerHour) % 24

\* C13: the instant calculateNextRunTime returns has its UTC+8 hour of the
\* day at or after 8 and before 24.
C13_WindowClamp ==
  input.fn = "nextRun" => (LocalHour(output.at) >= 8 /\ LocalHour(output.at) < 24)

\* C13, its case: now + hours fell before 8 local time and was moved to 8.
C13_Witness ==
  /\ input.fn = "nextRun"
  /\ LocalHour(input.t + input.hours * MinutesPerHour) < 8
  /\ LocalHour(output.at) = 8

\* t when its UTC+8 hour is in the window, else 8:00 UTC+8 of the same day.
ClampedToWindow(t) ==
  IF LocalHour(t) >= 8 THEN t
  ELSE ((t + BeijingOffset) \div MinutesPerDay) * MinutesPerDay
         + 8 * MinutesPerHour - BeijingOffset

\* C14: the schedule update of a posts task with no observed count and no
\* rate yet persists rate 2.0, group medium_high and next_run_time = now +
\* 10 hours clamped to the window, whatever the total.
C14_FirstRun ==
  [][(/\ pc = "observing"
      /\ pc' = "idle"
      /\ tasks[PostsTask].last_post_count = NULL
      /\ tasks[PostsTask].avg_posts_per_day = NULL) =>
       /\ tasks'[PostsTask].avg_posts_per_day = 2000
       /\ tasks'[PostsTask].frequency_group = "medium_high"
       /\ tasks'[PostsTask].next_run_time = ClampedToWindow(now' + 10 * MinutesPerHour)]_vars

\* C14, its case: the first update came with total 50.
C14_Witness ==
  /\ pc = "idle"
  /\ tasks[PostsTask].last_post_count = 50
  /\ tasks[PostsTask].avg_posts_per_day = 2000
  /\ tasks[PostsTask].frequency_group = "medium_high"
  /\ tasks[PostsTask].next_run_time # NULL

\* Position of the last row before i that is not a Reply (0: none).
LastPostBefore(rows, i) ==
  IF \E j \in 1..(i - 1) : rows[j].Type # "Reply"
    THEN CHOOSE j \in 1..(i - 1) :
           rows[j].Type # "Reply" /\ \A k \in (j + 1)..(i - 1) : rows[k].Type = "Reply"
    ELSE 0

\* C15: in a replies listing a Reply after another row gets that row's id
\* as parent and, as root, the id of the last non-Reply row before it (the
\* previous row's id when there is none); a row that is not a Reply gets no
\* parent and its own id as root.
C15_ReplyChain ==
  input.fn = "infer" =>
    \A i \in 1..Len(input.rows) :
      IF input.rows[i].Type = "Reply"
        THEN i > 1 =>
               /\ output.rows[i].in_reply_to_tweet_id = getItemId(input.rows[i - 1])
               /\ output.rows[i].conversation_id =
                    IF LastPostBefore(input.rows, i) # 0
                      THEN getItemId(input.rows[LastPostBefore(input.rows, i)])
                      ELSE getItemId(input.rows[i - 1])
        ELSE /\ OrNull(output.rows[i].in_reply_to_tweet_id) = NULL
             /\ output.rows[i].conversation_id = getItemId(input.rows[i])

\* C15, its case: the listing [1:Post, 2:Reply, 3:Reply, 4:Post].
C15_Witness ==
  /\ input.fn = "infer"
  /\ Len(input.rows) = 4
  /\ input.rows[1].Type = "Post" /\ input.rows[2].Type = "Reply"
  /\ input.rows[3].Type = "Reply" /\ input.rows[4].Type = "Post"
  /\ output.rows[2].in_reply_to_tweet_id = 1 /\ output.rows[2].conversation_id = 1
  /\ output.rows[3].in_reply_to_tweet_id = 2 /\ output.rows[3].conversation_id = 1
  /\ output.rows[4].in_reply_to_tweet_id = 0 /\ output.rows[4].conversation_id = 4

\* Records of a batch that carry the identifier their data type is keyed on.
WithId(type, rawData) ==
  {i \in 1..Len(rawData) :
     IF type \in {"followers", "following"} THEN FollowUserId(rawData[i]) # 0
     ELSE getItemId(rawData[i]) # 0}

\* A batch with at least one record that has its identifier and at least
\* one that lacks it.
PartiallyInvalid(type, rawData) ==
  /\ WithId(type, rawData) # {}
  /\ WithId(type, rawData) # 1..Len(rawData)

\* C16: merging a partially invalid batch while the store answers raises no
\* error and reports total = the number of records that have an identifier
\* (the records lacking one are left out of it), for posts and replies and
\* for followers and following.
C16_PartialBatch ==
  (last.type # NULLS /\ ~last.injected /\ PartiallyInvalid(last.type, last.rawData)) =>
    /\ last.ok
    /\ last.total = Cardinality(WithId(last.type, last.rawData))

\* C16, its case: a following batch of one record without User ID and one
\* with it was merged and reported total 2.
C16_Witness ==
  /\ last.type = "following"
  /\ ~last.injected
  /\ last.rawData = <<Fnone, F7x>>
  /\ last.ok
  /\ last.total = 2

\* C17: with continueOnError, when the store fails during the merge of the
\* second task of a batch whose first task succeeded and which has a task
\* left, the second task is marked failed and the loop goes on to the task
\* left, whether or not the store still fails when the failed status is
\* written.
C17_LoopSurvivesStoreFailure ==
  [][(/\ pc = "catch"
      /\ pc' # "crashed"
      /\ continueOnError
      /\ error = StoreError
      /\ result = NoResult
      /\ tasks[user].status = "running"
      /\ Len(results) = 1
      /\ results[1].status = "success"
      /\ results[1].taskId # user
      /\ pendingUsers # {}) =>
       /\ tasks'[user].status = "failed"
       /\ pc' = "loop"
       /\ pendingUsers' = pendingUsers]_vars

\* C17, its case with the store answering again: the second task is failed
\* and the loop is back with the third task pending.
C17_Witness ==
  /\ pc = "loop"
  /\ continueOnError
  /\ Len(results) = 2
  /\ results[1].status = "success"
  /\ results[2].status = "error"
  /\ results[2].error = StoreError
  /\ tasks[results[2].taskId].status = "failed"
  /\ tasks[results[1].taskId].status = "completed"
  /\ pendingUsers # {}

\* Some task of the run ended in the catch block.
SomeTaskFailed == \E i \in 1..Len(results) : results[i].status = "error"

\* C18: when run() has returned, the process exits non-zero if some task
\* failed and continueOnError is false, and zero otherwise.
C18_ExitStatus ==
  [][(pc = "done" /\ pc' = "exited") =>
       ((exitStatus' # 0) <=> (~continueOnError /\ SomeTaskFailed))]_vars

\* C18, its case: a run aborted by its first failure is about to exit.
C18_Witness ==
  /\ pc = "done"
  /\ ~continueOnError
  /\ SomeTaskFailed
  /\ globalError # NULLS

\* The states in which run() is inside its loop.
InLoop == pc \in {"loop", "collect", "frequency", "complete", "catch"}

\* C19: with continueOnError a task that failed on a Collector error does
\* not end the run while tasks are left; without it nothing is started once
\* a task has failed.
C19_ContinueOrAbort ==
  /\ [][(/\ pc = "catch"
         /\ pc' # "crashed"
         /\ continueOnError
         /\ error = CollectorError
         /\ pendingUsers # {}) => pc' = "loop"]_vars
  /\ [](~continueOnError /\ SomeTaskFailed => ~InLoop)

\* C19, its case without continueOnError: the run ended on the first failure
\* with a task left.
C19_Witness ==
  /\ pc = "done"
  /\ ~continueOnError
  /\ Len(results) = 1
  /\ results[1].status = "error"
  /\ results[1].error = CollectorError
  /\ pendingUsers # {}

\* Entries of the results with the given status, counted one by one.
RECURSIVE CountStatus(_, _)
CountStatus(res, status) ==
  IF res = << >> THEN 0
  ELSE (IF Head(res).status = status THEN 1 ELSE 0) + CountStatus(Tail(res), status)

\* C20: an error of a task never leaves run(): the loop is left only to the
\* point where the report is returned (or by the death of the process), and
\* the report's successCount and errorCount are the numbers of entries with
\* status success and error, also when every task failed or the batch was
\* cut short.
C20_AlwaysReports ==
  /\ [][InLoop => (InLoop' \/ pc' \in {"done", "crashed"})]_vars
  /\ [](pc = "done" =>
          /\ Report.successCount = CountStatus(results, "success")
          /\ Report.errorCount = CountStatus(results, "error")
          /\ Report.successCount + Report.errorCount = Report.totalUsers)

\* C20, its case: a batch cut short after one success and one failure.
C20_Witness ==
  /\ pc = "done"
  /\ globalError # NULLS
  /\ Report.successCount = 1
  /\ Report.errorCount = 1
  /\ pendingUsers # {}

\* The tier and the interval (hours) the specification gives a rate
\* (thousandths of a post per day).
TierOf(r) ==
  IF r >= 7000 THEN <<"very_high", 7>>
  ELSE IF 3500 <= r /\ r < 7000 THEN <<"high", 8>>
  ELSE IF 1600 <= r /\ r < 3500 THEN <<"medium_high", 10>>
  ELSE IF 800 <= r /\ r < 1600 THEN <<"medium", 12>>
  ELSE IF 300 <= r /\ r < 800 THEN <<"low", 18>>
  ELSE <<"very_low", 24>>

C22_FixedLowSchedule ==
  [][(/\ pc = "frequency"
      /\ pc' = "complete"
      /\ tasks[user].task_type # "posts") =>
       /\ tasks'[user].frequency_group = "low"
       /\ tasks'[user].last_post_count = result.total
       /\ tasks'[user].next_run_time = ClampedToWindow(now + 18 * MinutesPerHour)]_vars

\* C22, its case: updateUserFrequency has returned for a replies task.
C22_Witness ==
  /\ pc = "complete"
  /\ tasks[user].task_type = "replies"
  /\ result.ok

\* C23: for a posts task with a prior run and a non-zero prior count, an
\* update less than 0.04 day after last_run_at persists the prior rate
\* unchanged, whatever the prior rate in [0, 100], 0 included.
C23_ShortIntervalKeepsRate ==
  (/\ input.fn = "schedule"
   /\ input.mins * 100 < 4 * MinutesPerDay) =>
     output.row.avg_posts_per_day = input.row.avg_posts_per_day

\* C23, its case: an update 30 minutes after last_run_at kept the rate 3.5.
C23_Witness ==
  /\ input.fn = "schedule"
  /\ input.mins = 30
  /\ input.total = 400
  /\ input.row.avg_posts_per_day = 3500
  /\ output.row.avg_posts_per_day = 3500
  /\ output.row.last_post_count = 400

\* The rate (thousandths/day) the blend gives a task of prior rate `prior`
\* that gained newPosts posts in the mins minutes since its previous run.
BlendedRate(prior, newPosts, mins) ==
  LET currentRate == (newPosts * MinutesPerDay * 1000) \div mins
      raw == IF mins * 2 < MinutesPerDay
               THEN (prior * 7 + currentRate * 3) \div 10
               ELSE (prior * 3 + currentRate * 7) \div 10
  IN  Max(0, Min(100000, raw))

\* C24: when the batch run completes the schedule update of a posts task
\* with a non-zero prior count d days after the task's previous run, d >=
\* 0.04, the persisted rate is the blend of the prior rate with
\* max(0, total - prior total) / d: 0.7/0.3 when d < 0.5, 0.3/0.7 when
\* d >= 0.5, clamped to [0, 100].
C24_BlendOverRunInterval ==
  [][(/\ pc = "frequency"
      /\ pc' = "complete"
      /\ tasks[user].task_type = "posts"
      /\ before.last_run_at # NULL
      /\ before.last_post_count \notin {NULL, 0}
      /\ before.avg_posts_per_day \notin {NULL, 0}
      /\ (now - before.last_run_at) * 100 >= 4 * MinutesPerDay) =>
       tasks'[user].avg_posts_per_day =
         BlendedRate(before.avg_posts_per_day,
                     Max(0, result.total - before.last_post_count),
                     now - before.last_run_at)]_vars

\* C24, its case: a posts task was run again more than half a day after
\* its previous run and its schedule update has returned.
C24_Witness ==
  /\ pc = "complete"
  /\ tasks[user].task_type = "posts"
  /\ before.last_run_at # NULL
  /\ before.last_post_count = 2
  /\ before.avg_posts_per_day = 2000
  /\ (now - before.last_run_at) * 2 >= MinutesPerDay
  /\ tasks[user].last_post_count = 2

\* The schedule fields of a scrape_tasks row.
Schedule(row) ==
  <<row.frequency_group, row.avg_posts_per_day, row.last_post_count, row.next_run_time>>

\* C25: the schedule fields and the completed status are persisted together:
\* a task never carries a newly computed schedule while its status is still
\* running, also when the process dies or the store fails between the steps.
C25_ScheduleWithStatus ==
  /\ [](pc = "complete" =>
          (tasks[user].status = "running" => Schedule(tasks[user]) = Schedule(before)))
  /\ [][(pc = "complete" /\ pc' \in {"crashed", "catch"}) =>
          (tasks'[user].status = "running" =>
             Schedule(tasks'[user]) = Schedule(before))]_vars

\* C25, its case: the 'completed' write of a posts task threw after its
\* schedule had been updated.
C25_Witness ==
  /\ pc = "catch"
  /\ tasks[user].task_type = "posts"
  /\ result.ok
  /\ tasks[user].status = "running"
  /\ tasks[user].last_post_count = result.total
  /\ before.last_post_count = NULL

\* The valid records of the merge `input` describes.
ChunkValid ==
  IF input.type = "replies" THEN inferReplyLinks(FilterValid(input.rawData), 1, 0, 0)
  ELSE FilterValid(input.rawData)

\* C26: when the bulk write of a merge fails after k statements, the rows of
\* those k statements are in the store and the error reaches the caller;
\* when the same merge is then run again until it succeeds, the store is
\* exactly what one uninterrupted merge of the batch would have left.
C26_RetryConverges ==
  (output.fn = "merge" /\ input.fn = "merge") =>
    /\ ~output.ok =>
         /\ output.error = StoreError
         /\ \A i \in 1..Min(Len(ChunkValid), input.done * ChunkRows) :
              \E row \in store.posts :
                /\ row.tweet_id = getItemId(ChunkValid[i])
                /\ \E j \in i..Min(Len(ChunkValid), input.done * ChunkRows) :
                     /\ getItemId(ChunkValid[j]) = row.tweet_id
                     /\ row.text = ChunkValid[j].Text
    /\ (output.ok /\ input.attempts > 1) =>
         store = processPostsDataBy(input.origin, input.username, input.type,
                                    input.rawData, "none", 0, ChunkRows).store

\* C26, its case: a merge into a store that already had posts failed after
\* its first statement and succeeded when run again.
C26_Witness ==
  /\ output.fn = "merge"
  /\ output.ok
  /\ input.attempts = 2
  /\ input.done = 1
  /\ input.origin.posts # {}
  /\ Cardinality(store.posts) > Cardinality(input.origin.posts)

\* The i-th record of the batch is the last one of its identifier.
LastWithId(type, rawData, i) ==
  \A j \in (i + 1)..Len(rawData) :
    IF type \in {"followers", "following"}
      THEN FollowUserId(rawData[j]) # FollowUserId(rawData[i])
      ELSE getItemId(rawData[j]) # getItemId(rawData[i])

\* The store holds what the record `rec` of a merge for `username` carries.
Written(type, username, rec) ==
  LET userId == getUserIdByUsername(store.users, username)
  IN  CASE type \in {"posts", "replies"} ->
             \E row \in store.posts :
               /\ row.tweet_id = getItemId(rec)
               /\ row.text = rec.Text
        [] type = "followers" ->
             \E row \in store.followers :
               /\ row.user_id = userId
               /\ row.relation_type = "follower"
               /\ row.follower_user_id = FollowUserId(rec)
               /\ row.follower_name = rec.Name
        [] type = "following" ->
             \E u \in store.users :
               /\ u.user_id = FollowUserId(rec)
               /\ \E e \in store.followings :
                    e.source_user_id = userId /\ e.target_user_id = u.id

\* C27: after a merge that returned, every record of the batch that has an
\* identifier is in the store with the values the batch gave it, whether
\* the merge counted it as new or as already stored.
C27_EveryValidRecordWritten ==
  (last.type # NULLS /\ last.ok) =>
    \A i \in WithId(last.type, last.rawData) :
      LastWithId(last.type, last.rawData, i) =>
        Written(last.type, last.username, last.rawData[i])

\* C27, its case: a merge of one record already stored, with another text,
\* and one new record.
C27_Witness ==
  /\ last.ok
  /\ last.type = "posts"
  /\ last.rawData = <<P1a, P2r>>
  /\ last.prevData = <<P1b>>
  /\ last.updated = 1
  /\ last.new = 1

\* C28: the merge of a batch that is not empty and in which no record has
\* an identifier returns total = 0, new = 0, updated = 0 and leaves the
\* store as it was, whatever the data type.
C28_NothingValidNothingDone ==
  (/\ last.type # NULLS
   /\ ~last.injected
   /\ last.rawData # << >>
   /\ WithId(last.type, last.rawData) = {}) =>
     /\ last.ok
     /\ last.total = 0 /\ last.new = 0 /\ last.updated = 0
     /\ last.rows = last.rowsBefore

\* C28, its case for posts: a batch of one record without id was merged
\* into a store that holds rows.
C28_Witness ==
  /\ last.type = "posts"
  /\ last.rawData = <<Pnone>>
  /\ last.ok
  /\ last.total = 0
  /\ last.rowsBefore > 0
  /\ last.rows = last.rowsBefore

\* C29: a follow relationship that is stored is left as it is by every later
\* merge, of followers as of following, also when the incoming record has
\* other attribute values.
C29_EdgesNeverUpdated ==
  [][/\ store.followers \subseteq store'.followers
     /\ store.followings \subseteq store'.followings]_vars

\* C29, its case for following: the pair was stored and came again, under
\* another display name.
C29_Witness ==
  /\ last.type = "following"
  /\ last.ok
  /\ last.rawData = <<F7y>>
  /\ last.prevData = <<F7x>>
  /\ last.new = 0
  /\ last.rows = last.rowsBefore

\* C30: no merge removes a row of twitter_users, and none sets a user_id
\* that is known back to NULL.
C30_ExternalIdKept ==
  [][\A r \in store.users :
       \E r2 \in store'.users :
         /\ r2.id = r.id
         /\ r.user_id # NULL => r2.user_id # NULL]_vars

\* C30, its case: carol's user_id is known and a merge that names carol
\* without it has returned.
C30_Witness ==
  /\ last.ok
  /\ last.rawData \in {<<P1c>>, <<Fanon>>}
  /\ last.prevData = <<F7x>>
  /\ last.rows = last.rowsBefore
  /\ \E r \in store.users : r.username = "carol"


\* The posts a merge of `rawData` writes that are not owned by `uid`.
NotOwnedBy(posts, rawData, uid) ==
  {i \in 1..Len(rawData) :
     /\ getItemId(rawData[i]) # 0
     /\ ~\E row \in posts : /\ row.tweet_id = PostTweetId(rawData[i])
                            /\ row.user_id = uid}

\* C31: when a posts or replies merge for handle h with a valid record has
\* returned, twitter_users has a row with username h, every post the merge
\* wrote has that row's id as user_id, and new / updated were counted against
\* the tweet_ids stored for that row before the merge; also when the first
\* record's Author Username is another handle.
C31_OwnedByHandle ==
  [][(/\ merges' = merges + 1
      /\ last'.ok
      /\ last'.type \in {"posts", "replies"}
      /\ last'.total > 0) =>
       LET uid == getUserIdByUsername(store'.users, last'.username)
           storedIds == getCollectedPostIds(store.posts, uid)
           valid == FilterValid(last'.rawData)
       IN  /\ uid # NULL
           /\ NotOwnedBy(store'.posts, last'.rawData, uid) = {}
           /\ last'.updated = CountPosts(valid, storedIds, TRUE)
           /\ last'.new = CountPosts(valid, storedIds, FALSE)]_vars

\* C31, its case without an Author Username: alice was not stored, the merge
\* created her row and its post is hers.
C31_Witness ==
  /\ last.ok
  /\ last.type = "posts"
  /\ last.username = "alice"
  /\ last.rawData = <<P1a>>
  /\ last.fromEmpty
  /\ last.new = 1
  /\ getUserIdByUsername(store.users, "alice") # NULL
  /\ NotOwnedBy(store.posts, <<P1a>>, getUserIdByUsername(store.users, "alice")) = {}


\* Task `id` is eligible: enabled, not running, next_run_time NULL or past.
Due(id) ==
  /\ tasks[id].enabled
  /\ tasks[id].status # "running"
  /\ (tasks[id].next_run_time = NULL \/ tasks[id].next_run_time <= now)

\* Task `id` has been selected and its collection is under way.
Run(id) == pc = "collect" /\ user = id

Monitoring == input.fn = "monitorProgress" /\ ~input.done

LeftRunning(id) == tasks[id].status = "running" /\ user # id

\* C34: a task left running is not among the rows a later selection returns
\* nor among the tasks a run goes through, and no step of a selection or of
\* a batch run changes its status.
C34_LeftRunningStaysRunning ==
  [][\A id \in TaskIds :
       LeftRunning(id) =>
         /\ tasks'[id].status = "running"
         /\ \A r \in taskRows' : r.id # id
         /\ id \notin pendingUsers'
         /\ user' # id]_vars

\* C34, its case: alice/posts was left running by a worker that died, and a
\* later run that drew alice is collecting alice/replies.
C34_Witness ==
  /\ tasks[1].status = "running"
  /\ pc = "collect"
  /\ user = 2
  /\ iterations = 2
  /\ tasks[2].status = "running"


\* C35: a task that was marked failed or completed with an explicit next
\* run time is not among the rows the selector of the batch runs returns
\* before that time.
C35_NotBeforeNextRunAt ==
  \A r \in taskRows : r.next_run_at = NULL \/ r.next_run_at <= selectedAt

\* C35, its case where the time given has passed: the task is returned.
C35_Witness ==
  /\ pc = "loaded"
  /\ \E r \in taskRows : /\ r.status \in {"failed", "completed"}
                         /\ r.next_run_at # NULL
                         /\ r.next_run_at <= selectedAt


\* The columns of a task's schedule and history.
History(row) ==
  <<row.frequency_group, row.avg_posts_per_day, row.last_post_count, row.last_run_at,
    row.next_run_time, row.next_run_at>>

\* C36: after upsertTask the pair has exactly one row; when it had one, that
\* row is enabled and pending with the new max_count and with frequency_group,
\* avg_posts_per_day, last_post_count, last_run_at and next_run_time as they
\* were; no pair has two rows and no other row is touched.
C36_ReRegister ==
  input.fn = "upsertTask" =>
    LET old == {r \in input.table : TaskConflict(r, input.username, input.taskType)}
        new == {r \in output.table : TaskConflict(r, input.username, input.taskType)}
    IN  /\ Cardinality(new) = 1
        /\ \A r \in new : r.enabled /\ r.status = "pending" /\ r.max_count = input.maxCount
        /\ \A o \in old : \A r \in new : r.id = o.id /\ History(r) = History(o)
        /\ output.table \ new = input.table \ old
        /\ \A r1, r2 \in output.table :
             TaskConflict(r1, r2.username, r2.task_type) => r1 = r2

\* C36, its case: a disabled task with a schedule and max_count 50 is
\* registered again with max_count 100, beside another task.
C36_Witness ==
  /\ input.fn = "upsertTask"
  /\ input.maxCount = 100
  /\ Cardinality(input.table) = 2
  /\ \E o \in input.table :
       /\ TaskConflict(o, input.username, input.taskType)
       /\ ~o.enabled
       /\ o.status = "completed"
       /\ o.frequency_group = "medium_high"
       /\ o.max_count = 50
  /\ \E r \in output.table : r.enabled /\ r.status = "pending" /\ r.max_count = 100
                             /\ r.frequency_group = "medium_high"


\* The tasks that have an entry in this.results.
Reported == {results[i].taskId : i \in 1..Len(results)}

\* C37: no task has two entries in this.results, so the report's
\* successCount + errorCount is the number of the tasks the run attempted,
\* also for a task whose collection succeeded and whose schedule or status
\* update then threw.
C37_OneEntryPerTask ==
  /\ \A i, j \in 1..Len(results) : results[i].taskId = results[j].taskId => i = j
  /\ Report.successCount + Report.errorCount = Cardinality(Reported)

\* C37, its case without a failing update: a run has returned with one task
\* completed and one failed, an entry each.
C37_Witness ==
  /\ pc = "done"
  /\ Len(results) = 2
  /\ Report.successCount = 1
  /\ Report.errorCount = 1
  /\ Cardinality(Reported) = 2


\* C38: in a worker that is not killed, an iteration of the loop that marked
\* its task running ends (the loop goes on to the next task, or run()
\* returns) with the task marked completed or failed, whatever threw in it.
C38_IterationEndsFinal ==
  [][(/\ user # 0
      /\ tasks[user].status = "running"
      /\ pc \in {"complete", "catch"}
      /\ pc' \in {"loop", "done"}) =>
       tasks'[user].status \in {"completed", "failed"}]_vars

\* C38, its case where a store call threw and the catch block's write went
\* through: the run has returned and the task is failed with the store's
\* message.
C38_Witness ==
  /\ pc = "done"
  /\ \E i \in 1..Len(results) :
       /\ results[i].status = "error"
       /\ results[i].error = StoreError
       /\ tasks[results[i].taskId].status = "failed"
       /\ tasks[results[i].taskId].error_message = StoreError


\* C39: a record the merge accepted is stored under the id getItemId gave
\* for it, whichever of ID, id, tweet_id, status_id and User ID it has.
C39_StoredUnderItemId ==
  (output.fn = "storePost" /\ output.total > 0) =>
    \E row \in output.posts : row.tweet_id = output.itemId

\* C39, its case with every id column present: the row is stored under ID.
C39_Witness ==
  /\ output.fn = "storePost"
  /\ output.total = 1
  /\ input.rec.ID = 1 /\ input.rec.id = 2 /\ input.rec.tweet_id = 3
  /\ input.rec.status_id = 4 /\ input.rec.UserID = 5
  /\ output.itemId = 1
  /\ \E row \in output.posts : row.tweet_id = 1


\* C40: a merge, of a posts file or of a replies file, never sets a stored
\* post's parent reference or conversation root back to NULL: a row that
\* had one before the merge has one after it.
C40_LinksNeverNulled ==
  [][\A old \in store.posts : \A new \in store'.posts :
       new.tweet_id = old.tweet_id =>
         /\ old.in_reply_to_tweet_id # NULL => new.in_reply_to_tweet_id # NULL
         /\ old.conversation_id # NULL => new.conversation_id # NULL]_vars

\* C40, its case: reply 2 was stored with its links by a replies merge, and
\* a posts merge of the same rows, which carries no links, has updated it.
C40_Witness ==
  /\ last.ok
  /\ last.type = "posts"
  /\ last.rawData = <<P1a, P2r>>
  /\ last.updated = 2
  /\ \E row \in store.posts :
       /\ row.tweet_id = 2
       /\ row.in_reply_to_tweet_id = 1
       /\ row.conversation_id = 1

=============================================================================
